---------------------------- MODULE Spec2Model ----------------------------
(***************************************************************************)
(* Curriculum graph engine of server/rag_service/curriculum_graph_handler  *)
(* (parse_unified_csv, build_curriculum_graph and its three transactional  *)
(* passes, delete_course_curriculum, the read queries) as a state machine  *)
(* over a property graph.                                                  *)
(*                                                                         *)
(* Strings are sequences of one-character strings, so that normalize_id,   *)
(* strip, lower, replace and split are computed character by character.    *)
(* The graph store is a bag of node records and a bag of edge records: a   *)
(* bag, not a set, so that a duplicate node or edge is a state the model   *)
(* can be in.  The createdAt/updatedAt timestamps are left out: no query   *)
(* reads them.                                                             *)
(***************************************************************************)
EXTENDS Integers, Sequences, FiniteSets, Bags, TLC

(***************************************************************************)
(* Strings                                                                 *)
(***************************************************************************)

\* Python's None, distinct from every character sequence (also from "").
NoneVal == <<"<None>">>

\* Python truthiness of an id: None and "" are falsy.
Truthy(x) == x # NoneVal /\ x # <<>>

\* str.lower() on one character.
LowerChar(ch) ==
    CASE ch = "A" -> "a"
      [] ch = "B" -> "b"
      [] ch = "C" -> "c"
      [] ch = "D" -> "d"
      [] ch = "L" -> "l"
      [] ch = "M" -> "m"
      [] ch = "R" -> "r"
      [] ch = "S" -> "s"
      [] ch = "T" -> "t"
      [] ch = "U" -> "u"
      [] ch = "V" -> "v"
      [] OTHER -> ch

\* str.lower()
Lower(s) == [i \in 1..Len(s) |-> LowerChar(s[i])]

\* The whitespace str.strip() removes.
IsSpace(ch) == ch \in {" ", "\t"}

RECURSIVE LStrip(_)
LStrip(s) ==
    IF s = <<>> THEN <<>>
    ELSE IF IsSpace(Head(s)) THEN LStrip(Tail(s)) ELSE s

RECURSIVE RStrip(_)
RStrip(s) ==
    IF s = <<>> THEN <<>>
    ELSE IF IsSpace(s[Len(s)]) THEN RStrip(SubSeq(s, 1, Len(s) - 1)) ELSE s

\* str.strip()
Strip(s) == RStrip(LStrip(s))

\* str.replace(old, new) for one-character old and new.
Replace(s, old, new) == [i \in 1..Len(s) |-> IF s[i] = old THEN new ELSE s[i]]

\* str.split(sep) for a one-character sep: "".split(",") is [""].
RECURSIVE SplitFrom(_, _, _)
SplitFrom(s, sep, cur) ==
    IF s = <<>> THEN <<cur>>
    ELSE IF Head(s) = sep THEN <<cur>> \o SplitFrom(Tail(s), sep, <<>>)
    ELSE SplitFrom(Tail(s), sep, Append(cur, Head(s)))

Split(s, sep) == SplitFrom(s, sep, <<>>)

\* normalize_id without the strip().
normalize_id_NoStrip(raw_id) ==
    IF raw_id = <<>> \/ raw_id = NoneVal THEN <<>>
    ELSE Replace(Replace(Lower(raw_id), " ", "_"), "-", "_")

\* normalize_id: "" for a falsy input, else strip, lower, " " -> "_", "-" -> "_".
normalize_id(raw_id) ==
    IF raw_id = <<>> \/ raw_id = NoneVal THEN <<>>
    ELSE Replace(Replace(Lower(Strip(raw_id)), " ", "_"), "-", "_")

\* str(row_num) for the row numbers the model reaches.
DigitChar(n) ==
    CASE n = 0 -> "0" [] n = 1 -> "1" [] n = 2 -> "2" [] n = 3 -> "3"
      [] n = 4 -> "4" [] n = 5 -> "5" [] n = 6 -> "6" [] n = 7 -> "7"
      [] n = 8 -> "8" [] OTHER -> "9"

\* f"Module {row_num}"
SyntheticModule(row_num) == <<"M", "o", "d", "u", "l", "e", " ", DigitChar(row_num)>>

(***************************************************************************)
(* parse_unified_csv                                                       *)
(*                                                                         *)
(* A table is what csv.DictReader and find_column leave of the file:       *)
(* module_col / subtopic_col say whether a module / subtopic column was    *)
(* found, rows are the data rows with the cells of the detected columns.   *)
(* The lecture-number cell is parsed into topic['lecture_number'], which   *)
(* no pass of the build writes to the graph; it is not carried here.       *)
(***************************************************************************)

\* `module_name not in modules_dict`: modules_dict is keyed by the stripped name.
InModulesDict(modules_dict, module_name) ==
    \E k \in 1..Len(modules_dict) : modules_dict[k].name = module_name

\* The subtopic records of one cell: split on ",", strip, drop the empty ones.
RECURSIVE SubtopicsOfParts(_, _)
SubtopicsOfParts(parts, topic_id) ==
    IF parts = <<>> THEN <<>>
    ELSE LET subtopic_name == Strip(Head(parts))
             rest == SubtopicsOfParts(Tail(parts), topic_id)
         IN  IF subtopic_name # <<>>
             THEN <<[id |-> normalize_id(subtopic_name),
                     name |-> subtopic_name,
                     topic_id |-> topic_id]>> \o rest
             ELSE rest

SubtopicsOfCell(cell, topic_id) ==
    LET subtopics_str == Strip(cell)
    IN  IF subtopics_str # <<>>
        THEN SubtopicsOfParts(Split(subtopics_str, ","), topic_id)
        ELSE <<>>

\* The body of the row loop for data row i (row_num = i + 1: the header is row 1).
ParseRow(acc, table, i) ==
    LET row == table.rows[i]
        row_num == i + 1
        module_name == IF table.module_col THEN Strip(row.module)
                       ELSE SyntheticModule(row_num)
        modules_dict ==
            IF module_name # <<>> /\ ~InModulesDict(acc.modules, module_name)
            THEN Append(acc.modules,
                        [id |-> normalize_id(module_name),
                         name |-> module_name,
                         order |-> Len(acc.modules) + 1])
            ELSE acc.modules
        topic_name == Strip(row.topic)
        topic_id == normalize_id(topic_name)
        module_id == IF module_name # <<>> THEN normalize_id(module_name) ELSE NoneVal
    IN  IF topic_name = <<>>
        THEN [acc EXCEPT !.modules = modules_dict]
        ELSE [modules |-> modules_dict,
              topics |-> Append(acc.topics,
                                [id |-> topic_id, name |-> topic_name,
                                 module_id |-> module_id]),
              subtopics |-> IF table.subtopic_col
                            THEN acc.subtopics \o SubtopicsOfCell(row.subtopics, topic_id)
                            ELSE acc.subtopics]

RECURSIVE ParseRows(_, _, _)
ParseRows(acc, table, i) ==
    IF i > Len(table.rows) THEN acc
    ELSE ParseRows(ParseRow(acc, table, i), table, i + 1)

\* "Deduplicate subtopics (keep unique by id)": the first record of each id.
RECURSIVE UniqueSubtopics(_, _)
UniqueSubtopics(subtopics, seen) ==
    IF subtopics = <<>> THEN <<>>
    ELSE IF Head(subtopics).id \in seen
         THEN UniqueSubtopics(Tail(subtopics), seen)
         ELSE <<Head(subtopics)>> \o
              UniqueSubtopics(Tail(subtopics), seen \cup {Head(subtopics).id})

\* parse_unified_csv: (modules, topics, unique_subtopics).  modules_dict keeps
\* insertion order and order is the insertion rank, so sorted(..., key=order)
\* is the insertion order.
parse_unified_csv(table) ==
    LET acc == ParseRows([modules |-> <<>>, topics |-> <<>>, subtopics |-> <<>>],
                         table, 1)
    IN  [modules |-> acc.modules,
         topics |-> acc.topics,
         subtopics |-> UniqueSubtopics(acc.subtopics, {})]

(***************************************************************************)
(* Column detection of parse_unified_csv                                   *)
(***************************************************************************)

\* name.strip().lower().replace(' ', '_')
NormalizeHeader(name) == Replace(Lower(Strip(name)), " ", "_")

\* `key in normalized_fields`
InNormalizedFields(fieldnames, key) ==
    \E i \in 1..Len(fieldnames) : NormalizeHeader(fieldnames[i]) = key

\* normalized_fields[key] of the dict {normalize(name): name for name in
\* fieldnames}: a name that normalizes to a key already there replaces the value,
\* so the key maps to the last such name.
NormalizedField(fieldnames, key) ==
    LET at == {i \in 1..Len(fieldnames) : NormalizeHeader(fieldnames[i]) = key}
    IN  fieldnames[CHOOSE i \in at : \A j \in at : j <= i]

\* find_column(possible_keys): the header of the first key that is present, or None.
RECURSIVE find_column(_, _)
find_column(fieldnames, possible_keys) ==
    IF possible_keys = <<>> THEN NoneVal
    ELSE IF InNormalizedFields(fieldnames, Head(possible_keys))
         THEN NormalizedField(fieldnames, Head(possible_keys))
         ELSE find_column(fieldnames, Tail(possible_keys))

module_keys ==
    <<<<"m", "o", "d", "u", "l", "e">>,
      <<"u", "n", "i", "t">>,
      <<"s", "e", "c", "t", "i", "o", "n">>>>

lecture_num_keys ==
    <<<<"l", "e", "c", "t", "u", "r", "e", "_", "n", "u", "m", "b", "e", "r">>,
      <<"l", "e", "c", "t", "u", "r", "e">>,
      <<"o", "r", "d", "e", "r">>,
      <<"n", "u", "m", "b", "e", "r">>,
      <<"l", "e", "c", "t", "u", "r", "e", "_", "n", "o">>>>

topic_keys ==
    <<<<"l", "e", "c", "t", "u", "r", "e", "_", "t", "o", "p", "i", "c">>,
      <<"t", "o", "p", "i", "c">>,
      <<"t", "i", "t", "l", "e">>,
      <<"n", "a", "m", "e">>,
      <<"l", "e", "c", "t", "u", "r", "e", "_", "t", "i", "t", "l", "e">>>>

subtopic_keys ==
    <<<<"s", "u", "b", "t", "o", "p", "i", "c", "s">>,
      <<"s", "u", "b", "t", "o", "p", "i", "c">>,
      <<"p", "r", "e", "r", "e", "q", "u", "i", "s", "i", "t", "e", "s">>,
      <<"c", "o", "n", "c", "e", "p", "t", "s">>,
      <<"s", "u", "b", "_", "t", "o", "p", "i", "c", "s">>>>

\* The four find_column calls, and whether the ValueError for a missing topic
\* column is raised.
ColumnMapping(fieldnames) ==
    LET topic_col == find_column(fieldnames, topic_keys)
    IN  [module_col |-> find_column(fieldnames, module_keys),
         lecture_num_col |-> find_column(fieldnames, lecture_num_keys),
         topic_col |-> topic_col,
         subtopic_col |-> find_column(fieldnames, subtopic_keys),
         raised |-> ~Truthy(topic_col)]

(***************************************************************************)
(* The three-file input: modules.csv, topics.csv, subtopics.csv            *)
(*                                                                         *)
(* A file is the sequence of its data rows; a row holds the three cells    *)
(* the parser reads.  With three files a topic can name a module, and a    *)
(* subtopic a topic, that its own build does not write.                    *)
(***************************************************************************)

\* int(cell) for the one-digit cells of the model.
IntOfCell(cell) == CHOOSE n \in 0..9 : <<DigitChar(n)>> = Strip(cell)

\* list.sort(key=order) is stable: a record goes after every record already placed
\* whose order is not greater.
RECURSIVE InsertByOrder(_, _)
InsertByOrder(sorted, m) ==
    IF sorted = <<>> THEN <<m>>
    ELSE IF Head(sorted).order <= m.order
         THEN <<Head(sorted)>> \o InsertByOrder(Tail(sorted), m)
         ELSE <<m>> \o sorted

RECURSIVE SortByOrder(_)
SortByOrder(modules) ==
    IF modules = <<>> THEN <<>>
    ELSE InsertByOrder(SortByOrder(SubSeq(modules, 1, Len(modules) - 1)),
                       modules[Len(modules)])

\* The row loop of parse_modules_csv: rows with no module_id are skipped.
RECURSIVE ModulesOfRows(_)
ModulesOfRows(rows) ==
    IF rows = <<>> THEN <<>>
    ELSE LET row == Head(rows)
             module_id == normalize_id(row.module_id)
         IN  IF module_id = <<>> THEN ModulesOfRows(Tail(rows))
             ELSE <<[id |-> module_id, name |-> Strip(row.module_name),
                     order |-> IntOfCell(row.order)]>> \o ModulesOfRows(Tail(rows))

parse_modules_csv(rows) == SortByOrder(ModulesOfRows(rows))

\* parse_topics_csv: rows with no topic_id are skipped; module_id is normalized
\* ("" when the cell is empty).
RECURSIVE parse_topics_csv(_)
parse_topics_csv(rows) ==
    IF rows = <<>> THEN <<>>
    ELSE LET row == Head(rows)
             topic_id == normalize_id(row.topic_id)
         IN  IF topic_id = <<>> THEN parse_topics_csv(Tail(rows))
             ELSE <<[id |-> topic_id, name |-> Strip(row.topic_name),
                     module_id |-> normalize_id(row.module_id)]>>
                  \o parse_topics_csv(Tail(rows))

\* parse_subtopics_csv: rows with no subtopic_id are skipped.
RECURSIVE parse_subtopics_csv(_)
parse_subtopics_csv(rows) ==
    IF rows = <<>> THEN <<>>
    ELSE LET row == Head(rows)
             subtopic_id == normalize_id(row.subtopic_id)
         IN  IF subtopic_id = <<>> THEN parse_subtopics_csv(Tail(rows))
             ELSE <<[id |-> subtopic_id, name |-> Strip(row.subtopic_name),
                     topic_id |-> normalize_id(row.topic_id)]>>
                  \o parse_subtopics_csv(Tail(rows))

\* The three lists ingest_curriculum_from_csvs hands to build_curriculum_graph.
ParseCsvs(files) ==
    [modules |-> parse_modules_csv(files.modules_csv),
     topics |-> parse_topics_csv(files.topics_csv),
     subtopics |-> parse_subtopics_csv(files.subtopics_csv)]

(***************************************************************************)
(* The graph store                                                         *)
(*                                                                         *)
(* A graph is [nodes, edges], both bags.  A Module node is                 *)
(* [kind, id, course, name, order], a Topic node [kind, id, course, name,  *)
(* module_id], a Subtopic node [kind, id, course, name, topic_id].  An     *)
(* edge is [rel, from, to] with from and to the (kind, id, course) keys of *)
(* its endpoints.                                                          *)
(***************************************************************************)

EmptyGraph == [nodes |-> EmptyBag, edges |-> EmptyBag]

NodeKey(n) == <<n.kind, n.id, n.course>>

EdgesOf(g, rel) == {e \in BagToSet(g.edges) : e.rel = rel}
NodesOf(g, kind) == {n \in BagToSet(g.nodes) : n.kind = kind}
NodeKeys(g) == {NodeKey(n) : n \in BagToSet(g.nodes)}

\* MatchNodes with the course compared as the read queries compare it
\* (toLower on both sides) instead of exactly.
MatchNodes_AnyCase(nodes, key) ==
    {n \in BagToSet(nodes) :
        n.kind = key[1] /\ n.id = key[2] /\ Lower(n.course) = Lower(key[3])}

\* The nodes a pattern (n:Kind {id: $id, course: $course}) matches: exact,
\* case-sensitive equality on id and course.
MatchNodes(nodes, key) == {n \in BagToSet(nodes) : NodeKey(n) = key}

RECURSIVE CopiesOfAll(_, _)
CopiesOfAll(S, B) ==
    IF S = {} THEN 0
    ELSE LET x == CHOOSE y \in S : TRUE
         IN  CopiesIn(x, B) + CopiesOfAll(S \ {x}, B)

\* CREATE in place of MERGE: a node is created whether or not one matches.
MergeNode_AlwaysCreate(nodes, rec) == nodes (+) SetToBag({rec})

\* MERGE (n:Kind {id: $id, course: $course}) ON CREATE SET ... ON MATCH SET ...:
\* every matched node takes the new properties; with no match one node is created.
MergeNode(nodes, rec) ==
    LET matched == MatchNodes(nodes, NodeKey(rec))
    IN  IF matched = {}
        THEN nodes (+) SetToBag({rec})
        ELSE LET kept == BagToSet(nodes) \ matched
                 rest == [n \in kept |-> nodes[n]]
             IN  rest (+) [n \in {rec} |-> CopiesOfAll(matched, nodes)]

\* CREATE in place of MERGE: the edge is created whether or not it is there.
MergeEdge_AlwaysCreate(g, rel, from, to) ==
    LET wanted == {[rel |-> rel, from |-> NodeKey(a), to |-> NodeKey(b)] :
                       a \in MatchNodes(g.nodes, from), b \in MatchNodes(g.nodes, to)}
    IN  [g EXCEPT !.edges = @ (+) SetToBag(wanted)]

\* MATCH (a {..}) MATCH (b {..}) MERGE (a)-[r:REL]->(b): for every pair of a
\* matched a and a matched b (none when an endpoint is not matched), the edge is
\* created unless it is there.
MergeEdge(g, rel, from, to) ==
    LET wanted == {[rel |-> rel, from |-> NodeKey(a), to |-> NodeKey(b)] :
                       a \in MatchNodes(g.nodes, from), b \in MatchNodes(g.nodes, to)}
        absent == {e \in wanted : ~BagIn(e, g.edges)}
    IN  [g EXCEPT !.edges = @ (+) SetToBag(absent)]

(***************************************************************************)
(* The three transactional passes of build_curriculum_graph                *)
(***************************************************************************)

\* First loop of _build_modules_transactional: MERGE every Module node.
RECURSIVE MergeModules(_, _, _)
MergeModules(g, course, modules) ==
    IF modules = <<>> THEN g
    ELSE LET module == Head(modules)
             rec == [kind |-> "Module", id |-> module.id, course |-> course,
                     name |-> module.name, order |-> module.order]
         IN  MergeModules([g EXCEPT !.nodes = MergeNode(@, rec)], course, Tail(modules))

\* Second loop: a PRECEDES edge from modules[i] to modules[i + 1].
RECURSIVE MergePrecedes(_, _, _, _)
MergePrecedes(g, course, modules, i) ==
    IF i > Len(modules) - 1 THEN g
    ELSE MergePrecedes(MergeEdge(g, "PRECEDES",
                                 <<"Module", modules[i].id, course>>,
                                 <<"Module", modules[i + 1].id, course>>),
                       course, modules, i + 1)

_build_modules_transactional(g, course, modules) ==
    MergePrecedes(MergeModules(g, course, modules), course, modules, 1)

\* One iteration per topic: MERGE the Topic node, then HAS_TOPIC from its module.
RECURSIVE _build_topics_transactional(_, _, _)
_build_topics_transactional(g, course, topics) ==
    IF topics = <<>> THEN g
    ELSE LET topic == Head(topics)
             rec == [kind |-> "Topic", id |-> topic.id, course |-> course,
                     name |-> topic.name, module_id |-> topic.module_id]
             g1 == [g EXCEPT !.nodes = MergeNode(@, rec)]
             g2 == IF Truthy(topic.module_id)
                   THEN MergeEdge(g1, "HAS_TOPIC",
                                  <<"Module", topic.module_id, course>>,
                                  <<"Topic", topic.id, course>>)
                   ELSE g1
         IN  _build_topics_transactional(g2, course, Tail(topics))

\* One iteration per subtopic: MERGE the Subtopic node, then PREREQUISITE_OF to
\* its topic.
RECURSIVE _build_subtopics_transactional(_, _, _)
_build_subtopics_transactional(g, course, subtopics) ==
    IF subtopics = <<>> THEN g
    ELSE LET subtopic == Head(subtopics)
             rec == [kind |-> "Subtopic", id |-> subtopic.id, course |-> course,
                     name |-> subtopic.name, topic_id |-> subtopic.topic_id]
             g1 == [g EXCEPT !.nodes = MergeNode(@, rec)]
             g2 == IF Truthy(subtopic.topic_id)
                   THEN MergeEdge(g1, "PREREQUISITE_OF",
                                  <<"Subtopic", subtopic.id, course>>,
                                  <<"Topic", subtopic.topic_id, course>>)
                   ELSE g1
         IN  _build_subtopics_transactional(g2, course, Tail(subtopics))

\* The graph after the first k passes of build_curriculum_graph (each pass one
\* session.execute_write transaction), k in 0..3.
PassesUpTo(g, course, input, k) ==
    LET g1 == IF k >= 1 THEN _build_modules_transactional(g, course, input.modules) ELSE g
        g2 == IF k >= 2 THEN _build_topics_transactional(g1, course, input.topics) ELSE g1
        g3 == IF k >= 3 THEN _build_subtopics_transactional(g2, course, input.subtopics) ELSE g2
    IN  g3

\* build_curriculum_graph, all three passes committed.
build_curriculum_graph(g, course, input) == PassesUpTo(g, course, input, 3)

\* ingest_from_unified_csv
ingest_from_unified_csv(g, course, table) ==
    build_curriculum_graph(g, course, parse_unified_csv(table))

\* ingest_curriculum_from_csvs
ingest_curriculum_from_csvs(g, course, files) ==
    build_curriculum_graph(g, course, ParseCsvs(files))

\* A delete that matches (n:Module) only, in place of Module, Topic and Subtopic.
delete_course_curriculum_ModulesOnly(g, course) ==
    LET gone(key) == key[1] = "Module" /\ Lower(key[3]) = Lower(course)
        keptNodes == {n \in BagToSet(g.nodes) : ~gone(NodeKey(n))}
        keptEdges == {e \in BagToSet(g.edges) : ~gone(e.from) /\ ~gone(e.to)}
    IN  [nodes |-> [n \in keptNodes |-> g.nodes[n]],
         edges |-> [e \in keptEdges |-> g.edges[e]]]

\* delete_course_curriculum: DETACH DELETE every Module, Topic and Subtopic node
\* with toLower(n.course) = toLower($course), and with it every edge at such a node.
delete_course_curriculum(g, course) ==
    LET gone(key) == Lower(key[3]) = Lower(course)
        keptNodes == {n \in BagToSet(g.nodes) : ~gone(NodeKey(n))}
        keptEdges == {e \in BagToSet(g.edges) : ~gone(e.from) /\ ~gone(e.to)}
    IN  [nodes |-> [n \in keptNodes |-> g.nodes[n]],
         edges |-> [e \in keptEdges |-> g.edges[e]]]

(***************************************************************************)
(* Read queries                                                            *)
(***************************************************************************)

\* The characters of the model in code point order, for ORDER BY on strings.
CharOrder == <<"\t", " ", ",", "-", "0", "1", "2", "3", "4", "5", "6", "7", "8", "9",
               "<", "A", "B", "C", "D", "M", "S", "T", "U", "V", "_",
               "a", "b", "c", "d", "e", "l", "m", "o", "r", "s", "t", "u", "v", "w">>

CharRank(ch) ==
    IF \E i \in 1..Len(CharOrder) : CharOrder[i] = ch
    THEN CHOOSE i \in 1..Len(CharOrder) : CharOrder[i] = ch
    ELSE Len(CharOrder) + 1

\* a < b in the lexicographic order of code points.
RECURSIVE StrLess(_, _)
StrLess(a, b) ==
    IF b = <<>> THEN FALSE
    ELSE IF a = <<>> THEN TRUE
    ELSE IF Head(a) = Head(b) THEN StrLess(Tail(a), Tail(b))
    ELSE CharRank(Head(a)) < CharRank(Head(b))

\* The rows of a bag of [id, name] rows in ORDER BY name order (rows of equal
\* name, which the query leaves in any order, by id).
RowBefore(r1, r2) ==
    \/ StrLess(r1.name, r2.name)
    \/ r1.name = r2.name /\ StrLess(r1.id, r2.id)

RECURSIVE Repeat(_, _)
Repeat(x, n) == IF n = 0 THEN <<>> ELSE <<x>> \o Repeat(x, n - 1)

RECURSIVE OrderByName(_)
OrderByName(rows) ==
    IF BagToSet(rows) = {} THEN <<>>
    ELSE LET first == CHOOSE r \in BagToSet(rows) :
                          \A o \in BagToSet(rows) : o = r \/ RowBefore(r, o)
             rest == [r \in BagToSet(rows) \ {first} |-> rows[r]]
         IN  Repeat(first, rows[first]) \o OrderByName(rest)

\* The Topic nodes (t:Topic {id: $topic_id}) WHERE toLower(t.course) = toLower($course).
TopicsNamed(g, course, topic_id) ==
    {t \in BagToSet(g.nodes) :
        t.kind = "Topic" /\ t.id = topic_id /\ Lower(t.course) = Lower(course)}

\* The rows of MATCH (s:Subtopic)-[:PREREQUISITE_OF]->(t): one [id, name] row per
\* matched path.
RECURSIVE PrerequisiteRows(_, _, _)
PrerequisiteRows(g, topics, paths) ==
    IF paths = {} THEN EmptyBag
    ELSE LET e == CHOOSE x \in paths : TRUE
             sources == MatchNodes(g.nodes, e.from)
             rows == {[id |-> n.id, name |-> n.name] : n \in sources}
         IN  [r \in rows |->
                 g.edges[e] * CopiesOfAll({n \in sources : n.id = r.id /\ n.name = r.name},
                                          g.nodes)]
             (+) PrerequisiteRows(g, topics, paths \ {e})

\* get_topic_prerequisites(course, topic_id): the prerequisite subtopics of the
\* topic as [id, name] rows, ordered by name.
get_topic_prerequisites(g, course, topic_id) ==
    LET topics == TopicsNamed(g, course, normalize_id(topic_id))
        paths == {e \in BagToSet(g.edges) :
                     /\ e.rel = "PREREQUISITE_OF"
                     /\ e.from[1] = "Subtopic"
                     /\ \E t \in topics : e.to = NodeKey(t)}
    IN  OrderByName(PrerequisiteRows(g, topics, paths))

\* toLower(n.course) = toLower($course): how every read query and the delete
\* compare the course.
InCourse(n, course) == Lower(n.course) = Lower(course)

\* The sequences that list every element of a finite set once.
Orderings(S) ==
    {f \in [1..Cardinality(S) -> S] : \A i, j \in 1..Cardinality(S) : f[i] = f[j] => i = j}

\* One element per node of the store: a node record with the rank of its copy.
NodeRows(g, S) == UNION {{<<n, i>> : i \in 1..CopiesIn(n, g.nodes)} : n \in S}

\* completed_set = {normalize_id(sid) for sid in completed_subtopic_ids}
CompletedSet(completed_subtopic_ids) ==
    {normalize_id(completed_subtopic_ids[i]) : i \in 1..Len(completed_subtopic_ids)}

\* The prerequisites that are in the completed set, in place of those that are not.
detect_missing_prerequisites_Completed(g, course, topic_id, completed_subtopic_ids) ==
    LET all_prerequisites == get_topic_prerequisites(g, course, topic_id)
        completed_set == CompletedSet(completed_subtopic_ids)
        Done(p) == p.id \in completed_set
    IN  SelectSeq(all_prerequisites, Done)

\* detect_missing_prerequisites: [p for p in all_prerequisites if p['id'] not in completed_set]
detect_missing_prerequisites(g, course, topic_id, completed_subtopic_ids) ==
    LET all_prerequisites == get_topic_prerequisites(g, course, topic_id)
        completed_set == CompletedSet(completed_subtopic_ids)
        Missing(p) == p.id \notin completed_set
    IN  SelectSeq(all_prerequisites, Missing)

\* The records of topic_query: one per (m:Module)-[:HAS_TOPIC]->(t:Topic {id}) with
\* both courses matching.
TopicRecords(g, course, topic_id) ==
    {[topic_id |-> q[2].id, topic_name |-> q[2].name, module_id |-> q[1].id,
      module_name |-> q[1].name, module_order |-> q[1].order] :
        q \in {r \in NodesOf(g, "Module") \X NodesOf(g, "Topic") :
                  /\ r[2].id = topic_id
                  /\ InCourse(r[1], course)
                  /\ InCourse(r[2], course)
                  /\ BagIn([rel |-> "HAS_TOPIC", from |-> NodeKey(r[1]),
                            to |-> NodeKey(r[2])], g.edges)}}

\* The keys of the nodes on the paths (k)-[:PRECEDES*]->(target): a path takes one
\* or more edges and no edge twice (P the edges, used the edges taken so far).
RECURSIVE OnTrails(_, _, _, _)
OnTrails(P, k, target, used) ==
    UNION {LET rest == OnTrails(P, e.to, target, used \cup {e})
           IN  (IF e.to = target THEN {k, target} ELSE {})
               \cup (IF rest # {} THEN {k} \cup rest ELSE {})
           : e \in {x \in P \ used : x.from = k}}

\* The nodes preceding_query returns: the distinct nodes on the PRECEDES paths from
\* a module of the course to a module of the course with the given id, but for
\* the nodes with that id.
PrecedingModules(g, course, module_id) ==
    LET P == EdgesOf(g, "PRECEDES")
        inCourse == {m \in NodesOf(g, "Module") : InCourse(m, course)}
        targets == {m \in inCourse : m.id = module_id}
        keys == UNION {OnTrails(P, NodeKey(q[1]), NodeKey(q[2]), {}) :
                           q \in inCourse \X targets}
    IN  {m \in BagToSet(g.nodes) : NodeKey(m) \in keys /\ m.id # module_id}

\* The orders ORDER BY m.order can return the rows in: rows of equal order in any
\* order.
OrdersByOrder(rows) ==
    {f \in Orderings(rows) :
        \A i, j \in 1..Len(f) : i < j => f[i][1].order <= f[j][1].order}

\* get_learning_path(course, target_topic_id): the lists the call can return.
\* single() takes the first record of topic_query, which is any of them when the
\* topic hangs under several modules.
LearningPaths(g, course, target_topic_id) ==
    LET normalized_topic_id == normalize_id(target_topic_id)
        records == TopicRecords(g, course, normalized_topic_id)
        prereqs == get_topic_prerequisites(g, course, target_topic_id)
        Path(topic_record, preceding) ==
            [i \in 1..Len(preceding) |->
                [type |-> "module", id |-> preceding[i][1].id,
                 name |-> preceding[i][1].name, order |-> preceding[i][1].order]]
            \o <<[type |-> "module", id |-> topic_record.module_id,
                  name |-> topic_record.module_name,
                  order |-> topic_record.module_order]>>
            \o [i \in 1..Len(prereqs) |->
                   [type |-> "subtopic", id |-> prereqs[i].id, name |-> prereqs[i].name]]
            \o <<[type |-> "topic", id |-> topic_record.topic_id,
                  name |-> topic_record.topic_name]>>
    IN  IF records = {} THEN {<<>>}
        ELSE UNION {{Path(topic_record, preceding) :
                        preceding \in OrdersByOrder(
                            NodeRows(g, PrecedingModules(g, course,
                                                         topic_record.module_id)))} :
                    topic_record \in records}

\* COLLECT(DISTINCT {id: s.id, name: s.name}) over the subtopics with a
\* PREREQUISITE_OF edge to topic node t.
SubtopicMaps(g, t) ==
    {[id |-> s.id, name |-> s.name] :
        s \in {n \in NodesOf(g, "Subtopic") :
                  BagIn([rel |-> "PREREQUISITE_OF", from |-> NodeKey(n),
                         to |-> NodeKey(t)], g.edges)}}

\* The topic lists traverse_curriculum can return for module node m: the distinct
\* {id, name, subtopics} maps of the topics under m, in any order, each with its
\* subtopic maps in any order; entries with a null id are filtered out.
TopicLists(g, m) ==
    LET T == {t \in NodesOf(g, "Topic") :
                 BagIn([rel |-> "HAS_TOPIC", from |-> NodeKey(m), to |-> NodeKey(t)],
                       g.edges)}
        subs(t) == Orderings({x \in SubtopicMaps(g, t) : Truthy(x.id)})
        choices == {c \in [T -> UNION {subs(t) : t \in T}] : \A t \in T : c[t] \in subs(t)}
    IN  UNION {Orderings({x \in {[id |-> t.id, name |-> t.name, subtopics |-> c[t]] :
                                    t \in T} : Truthy(x.id)}) :
               c \in choices}

\* The module lists traverse_curriculum can return for the module rows in one
\* order: each module with one of its topic lists.
RECURSIVE ModuleLists(_, _)
ModuleLists(g, rows) ==
    IF rows = <<>> THEN {<<>>}
    ELSE LET m == Head(rows)[1]
         IN  {<<[id |-> m.id, name |-> m.name, order |-> m.order, topics |-> q[1]]>>
                  \o q[2] :
              q \in TopicLists(g, m) \X ModuleLists(g, Tail(rows))}

\* traverse_curriculum(course): the structures the call can return.  One row per
\* Module node whose course matches, ORDER BY m.order.
Traversals(g, course) ==
    LET M == NodeRows(g, {m \in NodesOf(g, "Module") : InCourse(m, course)})
    IN  {[course |-> course, modules |-> modules] :
            modules \in UNION {ModuleLists(g, rows) : rows \in OrdersByOrder(M)}}

\* dict.get(key, default) on a record.
Get(rec, key, default) == IF key \in DOMAIN rec THEN rec[key] ELSE default

\* any(n['id'] == id for n in nodes)
AnyNodeWithId(vnodes, id) == \E k \in 1..Len(vnodes) : vnodes[k].id = id

\* The loop over topic.get('prerequisites', []) of get_curriculum_visualization.
RECURSIVE VisPrerequisites(_, _, _)
VisPrerequisites(acc, prereqs, topic_id) ==
    IF prereqs = <<>> THEN acc
    ELSE LET prereq == Head(prereqs)
             prereq_id == prereq.id
             vnodes == IF ~AnyNodeWithId(acc.nodes, prereq_id)
                       THEN Append(acc.nodes,
                                   [id |-> prereq_id, label |-> prereq.name,
                                    type |-> "subtopic", topic_id |-> topic_id])
                       ELSE acc.nodes
             vedges == Append(acc.edges,
                              [from |-> prereq_id, to |-> topic_id,
                               type |-> "PREREQUISITE_OF"])
         IN  VisPrerequisites([nodes |-> vnodes, edges |-> vedges], Tail(prereqs), topic_id)

\* The loop over module.get('topics', []).
RECURSIVE VisTopics(_, _, _)
VisTopics(acc, topics, module_id) ==
    IF topics = <<>> THEN acc
    ELSE LET topic == Head(topics)
             topic_id == topic.id
             acc1 == [nodes |-> Append(acc.nodes,
                                       [id |-> topic_id, label |-> topic.name,
                                        type |-> "topic", module_id |-> module_id]),
                      edges |-> Append(acc.edges,
                                       [from |-> module_id, to |-> topic_id,
                                        type |-> "HAS_TOPIC"])]
             acc2 == VisPrerequisites(acc1, Get(topic, "prerequisites", <<>>), topic_id)
         IN  VisTopics(acc2, Tail(topics), module_id)

\* The loop over enumerate(modules), from index i (1-based here).
RECURSIVE VisModules(_, _, _)
VisModules(acc, modules, i) ==
    IF i > Len(modules) THEN acc
    ELSE LET module == modules[i]
             module_id == module.id
             vnodes == Append(acc.nodes,
                              [id |-> module_id, label |-> module.name,
                               type |-> "module", order |-> module.order])
             vedges == IF i > 1
                       THEN Append(acc.edges,
                                   [from |-> modules[i - 1].id, to |-> module_id,
                                    type |-> "PRECEDES"])
                       ELSE acc.edges
             acc1 == VisTopics([nodes |-> vnodes, edges |-> vedges],
                               Get(module, "topics", <<>>), module_id)
         IN  VisModules(acc1, modules, i + 1)

\* len([n for n in nodes if n['type'] == type])
CountOfType(vnodes, type) == Cardinality({k \in 1..Len(vnodes) : vnodes[k].type = type})

\* get_curriculum_visualization on the structure traverse_curriculum returned.
\* (The qdrant_doc_count placeholder set on topic nodes is not carried.)
get_curriculum_visualization(course, curriculum) ==
    LET acc == VisModules([nodes |-> <<>>, edges |-> <<>>],
                          Get(curriculum, "modules", <<>>), 1)
    IN  [course |-> course, nodes |-> acc.nodes, edges |-> acc.edges,
         stats |-> [total_modules |-> CountOfType(acc.nodes, "module"),
                    total_topics |-> CountOfType(acc.nodes, "topic"),
                    total_subtopics |-> CountOfType(acc.nodes, "subtopic"),
                    total_edges |-> Len(acc.edges)]]

\* The dictionary delete_course_curriculum returns: count(n) over the matched nodes.
delete_course_result(g, course) ==
    [success |-> TRUE, course |-> course,
     deleted_count |-> CopiesOfAll({n \in BagToSet(g.nodes) : InCourse(n, course)},
                                   g.nodes)]

(***************************************************************************)
(* The summary build_curriculum_graph returns                              *)
(***************************************************************************)

\* nodes_created of _build_modules_transactional counting a module only when
\* its MERGE created the node.
RECURSIVE CountModules_CreatedOnly(_, _, _)
CountModules_CreatedOnly(g, course, modules) ==
    IF modules = <<>> THEN 0
    ELSE LET module == Head(modules)
             rec == [kind |-> "Module", id |-> module.id, course |-> course,
                     name |-> module.name, order |-> module.order]
             g1 == [g EXCEPT !.nodes = MergeNode(@, rec)]
         IN  (IF MatchNodes(g.nodes, NodeKey(rec)) = {} THEN 1 ELSE 0)
             + CountModules_CreatedOnly(g1, course, Tail(modules))

\* nodes_created of _build_modules_transactional: one for every module whose
\* MERGE ... RETURN m gives a record (result.single() is not None), that is
\* whenever a node matches the key after the MERGE, created or matched.
RECURSIVE CountModules(_, _, _)
CountModules(g, course, modules) ==
    IF modules = <<>> THEN 0
    ELSE LET module == Head(modules)
             rec == [kind |-> "Module", id |-> module.id, course |-> course,
                     name |-> module.name, order |-> module.order]
             g1 == [g EXCEPT !.nodes = MergeNode(@, rec)]
         IN  (IF MatchNodes(g1.nodes, NodeKey(rec)) # {} THEN 1 ELSE 0)
             + CountModules(g1, course, Tail(modules))

\* (nodes_created, rels_created) of _build_topics_transactional: a relationship
\* is counted when MATCH (m) MATCH (t) MERGE ... RETURN r gives a record, that
\* is when both endpoints are matched.
RECURSIVE CountTopics(_, _, _)
CountTopics(g, course, topics) ==
    IF topics = <<>> THEN [nodes_created |-> 0, rels_created |-> 0]
    ELSE LET topic == Head(topics)
             rec == [kind |-> "Topic", id |-> topic.id, course |-> course,
                     name |-> topic.name, module_id |-> topic.module_id]
             g1 == [g EXCEPT !.nodes = MergeNode(@, rec)]
             linked == /\ Truthy(topic.module_id)
                       /\ MatchNodes(g1.nodes, <<"Module", topic.module_id, course>>) # {}
                       /\ MatchNodes(g1.nodes, <<"Topic", topic.id, course>>) # {}
             g2 == IF Truthy(topic.module_id)
                   THEN MergeEdge(g1, "HAS_TOPIC",
                                  <<"Module", topic.module_id, course>>,
                                  <<"Topic", topic.id, course>>)
                   ELSE g1
             rest == CountTopics(g2, course, Tail(topics))
         IN  [nodes_created |-> (IF MatchNodes(g1.nodes, NodeKey(rec)) # {} THEN 1 ELSE 0)
                                + rest.nodes_created,
              rels_created |-> (IF linked THEN 1 ELSE 0) + rest.rels_created]

\* (nodes_created, rels_created) of _build_subtopics_transactional
RECURSIVE CountSubtopics(_, _, _)
CountSubtopics(g, course, subtopics) ==
    IF subtopics = <<>> THEN [nodes_created |-> 0, rels_created |-> 0]
    ELSE LET subtopic == Head(subtopics)
             rec == [kind |-> "Subtopic", id |-> subtopic.id, course |-> course,
                     name |-> subtopic.name, topic_id |-> subtopic.topic_id]
             g1 == [g EXCEPT !.nodes = MergeNode(@, rec)]
             linked == /\ Truthy(subtopic.topic_id)
                       /\ MatchNodes(g1.nodes, <<"Subtopic", subtopic.id, course>>) # {}
                       /\ MatchNodes(g1.nodes, <<"Topic", subtopic.topic_id, course>>) # {}
             g2 == IF Truthy(subtopic.topic_id)
                   THEN MergeEdge(g1, "PREREQUISITE_OF",
                                  <<"Subtopic", subtopic.id, course>>,
                                  <<"Topic", subtopic.topic_id, course>>)
                   ELSE g1
             rest == CountSubtopics(g2, course, Tail(subtopics))
         IN  [nodes_created |-> (IF MatchNodes(g1.nodes, NodeKey(rec)) # {} THEN 1 ELSE 0)
                                + rest.nodes_created,
              rels_created |-> (IF linked THEN 1 ELSE 0) + rest.rels_created]

\* The dictionary build_curriculum_graph returns when all three passes commit.
build_curriculum_graph_result(g, course, input) ==
    LET g1 == PassesUpTo(g, course, input, 1)
        g2 == PassesUpTo(g, course, input, 2)
        topic_counts == CountTopics(g1, course, input.topics)
        subtopic_counts == CountSubtopics(g2, course, input.subtopics)
    IN  [success |-> TRUE,
         course |-> course,
         modules_created |-> CountModules(g, course, input.modules),
         topics_created |-> topic_counts.nodes_created,
         subtopics_created |-> subtopic_counts.nodes_created,
         precedes_relationships |->
             IF Len(input.modules) > 1 THEN Len(input.modules) - 1 ELSE 0,
         has_topic_relationships |-> topic_counts.rels_created,
         prerequisite_of_relationships |-> subtopic_counts.rels_created]

(***************************************************************************)
(* course_pipeline: the read functions of the orchestrator                 *)
(***************************************************************************)

\* The None that get_next_curriculum_item returns: a record, as an item is.
NoItem == [none |-> TRUE]

\* The item get_next_curriculum_item returns for a topic of a module.
ItemOf(topic, module) ==
    [type |-> "topic", id |-> topic.id, name |-> topic.name,
     module_id |-> module.id, module_name |-> module.name]

\* The loops of get_next_curriculum_item from module i on; found is found_current.
RECURSIVE NextItemFrom(_, _, _, _)
NextItemFrom(modules, i, found, current_topic_id) ==
    IF i > Len(modules) THEN NoItem
    ELSE LET module == modules[i]
             topics == module.topics
             hits == {p \in 1..Len(topics) : topics[p].id = current_topic_id}
             first == CHOOSE p \in hits : \A q \in hits : p <= q
             found_after == found \/ hits # {}
             \* modules.index(module) + 1
             next_module_idx ==
                 (CHOOSE k \in 1..Len(modules) :
                     /\ modules[k] = module
                     /\ \A j \in 1..(k - 1) : modules[j] # module) + 1
         IN  IF found /\ topics # <<>> THEN ItemOf(topics[1], module)
             ELSE IF ~found /\ hits # {} /\ first < Len(topics)
                  THEN ItemOf(topics[first + 1], module)
             ELSE IF /\ found_after
                     /\ module # modules[Len(modules)]
                     /\ modules[next_module_idx].topics # <<>>
                  THEN ItemOf(modules[next_module_idx].topics[1],
                              modules[next_module_idx])
             ELSE NextItemFrom(modules, i + 1, found_after, current_topic_id)

\* get_next_curriculum_item(course, current_topic_id): the items the call can
\* return, one for every structure traverse_curriculum can return.
NextItems(g, course, current_topic_id) ==
    {NextItemFrom(curriculum.modules, 1, FALSE, current_topic_id) :
        curriculum \in Traversals(g, course)}

\* course_pipeline.detect_missing_prerequisites: the prerequisites whose id is
\* not in set(completed_subtopics), the ids compared as given.
course_pipeline_detect_missing_prerequisites(g, course, topic_id, completed_subtopics) ==
    LET prerequisites == get_topic_prerequisites(g, course, topic_id)
        completed_set == {completed_subtopics[k] : k \in 1..Len(completed_subtopics)}
    IN  SelectSeq(prerequisites, LAMBDA prereq : prereq.id \notin completed_set)

(***************************************************************************)
(* syllabus_qdrant_linker: the resource reference parser                   *)
(*                                                                         *)
(* The regular expressions of _parse_resources are computed position by    *)
(* position on the character sequence.  A ResourceReference is the record  *)
(* [resource_id, chapter, lecture, extra_info].                            *)
(***************************************************************************)

\* \d
IsDigit(ch) == ch \in {"0", "1", "2", "3", "4", "5", "6", "7", "8", "9"}

\* str.upper() on one character of a matched R\d+ group (the letter is R or r).
UpperChar(ch) == IF ch = "r" THEN "R" ELSE ch

\* str.upper()
Upper(s) == [i \in 1..Len(s) |-> UpperChar(s[i])]

\* The position after the longest run of digits that starts at position i (\d*).
DigitsEnd(s, i) ==
    CHOOSE j \in i..(Len(s) + 1) :
        /\ \A k \in i..(j - 1) : IsDigit(s[k])
        /\ j = Len(s) + 1 \/ ~IsDigit(s[j])

\* The position after the longest run of whitespace that starts at position i (\s*).
SpacesEnd(s, i) ==
    CHOOSE j \in i..(Len(s) + 1) :
        /\ \A k \in i..(j - 1) : IsSpace(s[k])
        /\ j = Len(s) + 1 \/ ~IsSpace(s[j])

\* The literal lit stands at position i of s.
StartsAt(s, i, lit) ==
    /\ i + Len(lit) - 1 <= Len(s)
    /\ SubSeq(s, i, i + Len(lit) - 1) = lit

\* re.sub(r'\s+', '', s)
RemoveSpaces(s) == SelectSeq(s, LAMBDA ch : ~IsSpace(ch))

\* One alternative of the optional group, [Cc]h(?:apter)?\.?\s*\d+ or
\* [Ll]ec(?:ture)?\.?\s*\d+, matched at position i: the position after the match,
\* 0 when it does not match.  Each optional piece is taken when it is there:
\* giving it back never lets the rest match, since the next piece cannot start
\* with the character given back.
SubRefEnd(s, i, first, stem, tail) ==
    LET a == i + 1 + Len(stem)
        b == IF StartsAt(s, a, tail) THEN a + Len(tail) ELSE a
        c == IF b <= Len(s) /\ s[b] = "." THEN b + 1 ELSE b
        d == SpacesEnd(s, c)
        e == DigitsEnd(s, d)
    IN  IF i <= Len(s) /\ s[i] \in first /\ StartsAt(s, i + 1, stem)
        THEN IF e > d THEN e ELSE 0
        ELSE 0

\* re.search(r'(R\d+)', part, re.IGNORECASE) with the letter compared exactly.
SearchResourceId_CaseSensitive(part) ==
    LET hits == {i \in 1..(Len(part) - 1) : part[i] = "R" /\ IsDigit(part[i + 1])}
    IN  IF hits = {} THEN 0 ELSE CHOOSE i \in hits : \A j \in hits : i <= j

\* re.search(r'(R\d+)', part, re.IGNORECASE): the position of the leftmost R or
\* r that a digit follows, 0 when there is none.
SearchResourceId(part) ==
    LET hits == {i \in 1..(Len(part) - 1) :
                    part[i] \in {"R", "r"} /\ IsDigit(part[i + 1])}
    IN  IF hits = {} THEN 0 ELSE CHOOSE i \in hits : \A j \in hits : i <= j

\* The body of the loop of _parse_resources for one stripped, non-empty part: the
\* list of the references it appends (none or one).
ResourceOfPart(part) ==
    IF Len(part) >= 2 /\ part[1] = "R" /\ IsDigit(part[2])
    THEN \* re.match(r'(R\d+)\s*(?:(chapter)|(lecture))?\s*(.*)?', part)
         LET idEnd == DigitsEnd(part, 2)
             at == SpacesEnd(part, idEnd)
             chEnd == SubRefEnd(part, at, {"C", "c"}, <<"h">>, <<"a", "p", "t", "e", "r">>)
             lecEnd == IF chEnd # 0 THEN 0
                       ELSE SubRefEnd(part, at, {"L", "l"}, <<"e", "c">>,
                                      <<"t", "u", "r", "e">>)
             groupEnd == IF chEnd # 0 THEN chEnd ELSE IF lecEnd # 0 THEN lecEnd ELSE at
             extra == SubSeq(part, SpacesEnd(part, groupEnd), Len(part))
         IN  <<[resource_id |-> Upper(SubSeq(part, 1, idEnd - 1)),
                chapter |-> IF chEnd # 0 THEN RemoveSpaces(SubSeq(part, at, chEnd - 1))
                            ELSE NoneVal,
                lecture |-> IF lecEnd # 0 THEN RemoveSpaces(SubSeq(part, at, lecEnd - 1))
                            ELSE NoneVal,
                extra_info |-> IF extra # <<>> THEN Strip(extra) ELSE NoneVal]>>
    ELSE LET i == SearchResourceId(part)
         IN  IF i # 0
             THEN <<[resource_id |-> Upper(SubSeq(part, i, DigitsEnd(part, i + 1) - 1)),
                     chapter |-> NoneVal,
                     lecture |-> NoneVal,
                     extra_info |-> part]>>
             ELSE <<>>

\* re.split(r'[;,]', s)
RECURSIVE ReSplitFrom(_, _)
ReSplitFrom(s, cur) ==
    IF s = <<>> THEN <<cur>>
    ELSE IF Head(s) \in {";", ","} THEN <<cur>> \o ReSplitFrom(Tail(s), <<>>)
    ELSE ReSplitFrom(Tail(s), Append(cur, Head(s)))

RECURSIVE ResourcesOfParts(_)
ResourcesOfParts(parts) ==
    IF parts = <<>> THEN <<>>
    ELSE LET part == Strip(Head(parts))
         IN  (IF part = <<>> THEN <<>> ELSE ResourceOfPart(part))
             \o ResourcesOfParts(Tail(parts))

\* SyllabusQdrantLinker._parse_resources
_parse_resources(resources_str) == ResourcesOfParts(ReSplitFrom(resources_str, <<>>))

(***************************************************************************)
(* syllabus_qdrant_linker: SyllabusQdrantLinker                            *)
(*                                                                         *)
(* A syllabus file is a table as above with, in addition, decodable        *)
(* (whether one of the four encodings reads it), topic_col, lecture_num_col*)
(* and resource_col (whether find_column found the column) and, in every   *)
(* row, the lecture and resources cells.  A SyllabusEntry is the record    *)
(* [module, lecture_number, topic, subtopics, resources, module_order].    *)
(* resource_to_entries, a dict, is a function from resource ids to lists   *)
(* of entries; the empty dict is the function with the empty domain.       *)
(***************************************************************************)

\* The synonym lists of load_syllabus, in its order.
linker_module_keys ==
    <<<<"m", "o", "d", "u", "l", "e">>,
      <<"u", "n", "i", "t">>,
      <<"s", "e", "c", "t", "i", "o", "n">>>>

linker_lecture_num_keys ==
    <<<<"l", "e", "c", "t", "u", "r", "e", "_", "n", "u", "m", "b", "e", "r">>,
      <<"l", "e", "c", "t", "u", "r", "e", "_", "n", "o">>,
      <<"l", "e", "c", "t", "u", "r", "e">>,
      <<"o", "r", "d", "e", "r">>,
      <<"n", "u", "m", "b", "e", "r">>>>

linker_topic_keys ==
    <<<<"l", "e", "c", "t", "u", "r", "e", "_", "t", "o", "p", "i", "c">>,
      <<"t", "o", "p", "i", "c">>,
      <<"t", "i", "t", "l", "e">>,
      <<"n", "a", "m", "e">>,
      <<"l", "e", "c", "t", "u", "r", "e", "_", "t", "i", "t", "l", "e">>>>

linker_subtopic_keys ==
    <<<<"s", "u", "b", "t", "o", "p", "i", "c", "s">>,
      <<"s", "u", "b", "t", "o", "p", "i", "c">>,
      <<"c", "o", "n", "c", "e", "p", "t", "s">>,
      <<"s", "u", "b", "_", "t", "o", "p", "i", "c", "s">>,
      <<"p", "r", "e", "r", "e", "q", "u", "i", "s", "i", "t", "e", "s">>>>

resource_keys ==
    <<<<"r", "e", "s", "o", "u", "r", "c", "e", "s">>,
      <<"r", "e", "s", "o", "u", "r", "c", "e">>,
      <<"m", "a", "t", "e", "r", "i", "a", "l", "s">>,
      <<"r", "e", "f", "s">>,
      <<"r", "e", "f", "e", "r", "e", "n", "c", "e", "s">>>>

\* The five find_column calls of load_syllabus and the ValueError it raises
\* without a topic column.
LinkerColumnMapping(fieldnames) ==
    LET topic_col == find_column(fieldnames, linker_topic_keys)
    IN  [module_col |-> find_column(fieldnames, linker_module_keys),
         lecture_num_col |-> find_column(fieldnames, linker_lecture_num_keys),
         topic_col |-> topic_col,
         subtopic_col |-> find_column(fieldnames, linker_subtopic_keys),
         resource_col |-> find_column(fieldnames, resource_keys),
         raised |-> topic_col = NoneVal]

DigitValue(ch) ==
    CASE ch = "0" -> 0 [] ch = "1" -> 1 [] ch = "2" -> 2 [] ch = "3" -> 3
      [] ch = "4" -> 4 [] ch = "5" -> 5 [] ch = "6" -> 6 [] ch = "7" -> 7
      [] ch = "8" -> 8 [] OTHER -> 9

\* int() of a string of digits.
RECURSIVE IntOfDigits(_)
IntOfDigits(s) ==
    IF s = <<>> THEN 0
    ELSE 10 * IntOfDigits(SubSeq(s, 1, Len(s) - 1)) + DigitValue(s[Len(s)])

\* The lecture number of a row: int of the first run of digits in the cell
\* (re.search(r'\d+', ...)), 0 without a column, for an empty cell or without digits.
LectureNumber(file, row) ==
    LET cell == row.lecture
        hits == {i \in 1..Len(cell) : IsDigit(cell[i])}
        first == CHOOSE i \in hits : \A j \in hits : i <= j
    IN  IF file.lecture_num_col /\ hits # {}
        THEN IntOfDigits(SubSeq(cell, first, DigitsEnd(cell, first) - 1))
        ELSE 0

\* [s.strip() for s in subtopics_str.split(',') if s.strip()]
StrippedParts(cell) ==
    LET parts == Split(Strip(cell), ",")
        stripped == [k \in 1..Len(parts) |-> Strip(parts[k])]
    IN  SelectSeq(stripped, LAMBDA part : part # <<>>)

\* module_order_map.get(module_name, 0): the map is the list of names in the
\* order of their first appearance.
ModuleOrder(module_order_map, module_name) ==
    IF \E k \in 1..Len(module_order_map) : module_order_map[k] = module_name
    THEN CHOOSE k \in 1..Len(module_order_map) : module_order_map[k] = module_name
    ELSE 0

\* self.resource_to_entries after the loop `for ref in resources` for one entry.
RECURSIVE IndexEntry(_, _, _)
IndexEntry(resource_to_entries, refs, entry) ==
    IF refs = <<>> THEN resource_to_entries
    ELSE LET id == Head(refs).resource_id
             old == IF id \in DOMAIN resource_to_entries
                    THEN resource_to_entries[id] ELSE <<>>
             new == [k \in (DOMAIN resource_to_entries) \cup {id} |->
                        IF k = id THEN Append(old, entry) ELSE resource_to_entries[k]]
         IN  IndexEntry(new, Tail(refs), entry)

\* self.syllabus_entries.append(entry), and the entry under each of its
\* resource ids in resource_to_entries.
AddEntry(acc, order_map, entry) ==
    [module_order_map |-> order_map,
     syllabus_entries |-> Append(acc.syllabus_entries, entry),
     resource_to_entries |-> IndexEntry(acc.resource_to_entries, entry.resources, entry)]

\* The body of the row loop of load_syllabus for data row i (row_num = i + 1).
LoadRow(acc, file, i) ==
    LET row == file.rows[i]
        module_name == IF file.module_col THEN Strip(row.module)
                       ELSE SyntheticModule(i + 1)
        order_map == IF module_name # <<>> /\ ModuleOrder(acc.module_order_map, module_name) = 0
                     THEN Append(acc.module_order_map, module_name)
                     ELSE acc.module_order_map
        topic_name == Strip(row.topic)
        resources == IF file.resource_col /\ Strip(row.resources) # <<>>
                     THEN _parse_resources(Strip(row.resources))
                     ELSE <<>>
        entry == [module |-> module_name,
                  lecture_number |-> LectureNumber(file, row),
                  topic |-> topic_name,
                  subtopics |-> IF file.subtopic_col THEN StrippedParts(row.subtopics)
                                ELSE <<>>,
                  resources |-> resources,
                  module_order |-> ModuleOrder(order_map, module_name)]
    IN  IF topic_name = <<>>
        THEN [acc EXCEPT !.module_order_map = order_map]
        ELSE AddEntry(acc, order_map, entry)

RECURSIVE LoadRows(_, _, _)
LoadRows(acc, file, i) ==
    IF i > Len(file.rows) THEN acc
    ELSE LoadRows(LoadRow(acc, file, i), file, i + 1)

\* The end of load_syllabus (lines 219-223): the instance holding the entries
\* read, loaded set, and the number of entries returned.
LoadedLinker(read, course_name) ==
    [self |-> [syllabus_entries |-> read.syllabus_entries,
               resource_to_entries |-> read.resource_to_entries,
               loaded |-> TRUE,
               course_name |-> course_name],
     raised |-> FALSE,
     value |-> Len(read.syllabus_entries)]

\* load_syllabus that keeps the entries and the index of the load before.
load_syllabus_NoReset(self, file, course_name) ==
    LET loaded == LoadRows([module_order_map |-> <<>>,
                            syllabus_entries |-> self.syllabus_entries,
                            resource_to_entries |-> self.resource_to_entries], file, 1)
    IN  IF ~file.decodable \/ ~file.topic_col
        THEN [self |-> [self EXCEPT !.course_name = course_name],
              raised |-> TRUE, value |-> NoneVal]
        ELSE [self |-> [syllabus_entries |-> loaded.syllabus_entries,
                        resource_to_entries |-> loaded.resource_to_entries,
                        loaded |-> TRUE,
                        course_name |-> course_name],
              raised |-> FALSE,
              value |-> Len(loaded.syllabus_entries)]

\* SyllabusQdrantLinker.load_syllabus: the instance after the call, whether the
\* call raised, and the number of entries it returned.  course_name,
\* syllabus_entries and resource_to_entries are reset before the file is read;
\* loaded is set at the end and never cleared.
load_syllabus(self, file, course_name) ==
    LET reset == [syllabus_entries |-> <<>>, resource_to_entries |-> <<>>,
                  loaded |-> self.loaded, course_name |-> course_name]
    IN  IF ~file.decodable \/ ~file.topic_col
        THEN [self |-> reset, raised |-> TRUE, value |-> NoneVal]
        ELSE LoadedLinker(LoadRows([module_order_map |-> <<>>, syllabus_entries |-> <<>>,
                                    resource_to_entries |-> <<>>], file, 1),
                          course_name)

\* re.match(r'(R\d+)', document_name, re.IGNORECASE) and .group(1).upper(): the
\* resource id leading the file name, None when there is none.
DocumentResourceId(document_name) ==
    IF /\ Len(document_name) >= 2
       /\ document_name[1] \in {"R", "r"}
       /\ IsDigit(document_name[2])
    THEN Upper(SubSeq(document_name, 1, DigitsEnd(document_name, 2) - 1))
    ELSE NoneVal

\* The SyllabusContext of an entry for a resource: chapter and lecture_ref are
\* those of the first reference of the entry with that resource id.
ContextOf(entry, resource_id) ==
    LET hits == {k \in 1..Len(entry.resources) :
                    entry.resources[k].resource_id = resource_id}
        first == CHOOSE k \in hits : \A j \in hits : k <= j
    IN  [module |-> entry.module,
         module_order |-> entry.module_order,
         topic |-> entry.topic,
         lecture_number |-> entry.lecture_number,
         subtopics |-> entry.subtopics,
         chapter |-> IF hits # {} THEN entry.resources[first].chapter ELSE NoneVal,
         lecture_ref |-> IF hits # {} THEN entry.resources[first].lecture ELSE NoneVal,
         prerequisites |-> <<>>]

\* The None that get_context_for_document returns: a record, as a SyllabusContext
\* is, with none of its fields.
NoContext == [none |-> TRUE]

\* get_context_for_document that takes the last referencing entry.
get_context_for_document_Last(self, document_name) ==
    LET resource_id == DocumentResourceId(document_name)
    IN  IF ~self.loaded THEN NoContext
        ELSE IF resource_id = NoneVal THEN NoContext
        ELSE IF resource_id \notin DOMAIN self.resource_to_entries THEN NoContext
        ELSE IF self.resource_to_entries[resource_id] = <<>> THEN NoContext
        ELSE LET entries == self.resource_to_entries[resource_id]
             IN  ContextOf(entries[Len(entries)], resource_id)

\* SyllabusQdrantLinker.get_context_for_document
get_context_for_document(self, document_name) ==
    LET resource_id == DocumentResourceId(document_name)
    IN  IF ~self.loaded THEN NoContext
        ELSE IF resource_id = NoneVal THEN NoContext
        ELSE IF resource_id \notin DOMAIN self.resource_to_entries THEN NoContext
        ELSE IF self.resource_to_entries[resource_id] = <<>> THEN NoContext
        ELSE ContextOf(self.resource_to_entries[resource_id][1], resource_id)

\* SyllabusQdrantLinker.get_all_contexts_for_document
get_all_contexts_for_document(self, document_name) ==
    LET resource_id == DocumentResourceId(document_name)
    IN  IF ~self.loaded THEN <<>>
        ELSE IF resource_id = NoneVal THEN <<>>
        ELSE IF resource_id \notin DOMAIN self.resource_to_entries THEN <<>>
        ELSE LET entries == self.resource_to_entries[resource_id]
             IN  [k \in 1..Len(entries) |-> ContextOf(entries[k], resource_id)]

(***************************************************************************)
(* course_pipeline.ingest_course                                           *)
(***************************************************************************)

\* SyllabusQdrantLinker.__init__
NewLinker ==
    [syllabus_entries |-> <<>>, resource_to_entries |-> <<>>, loaded |-> FALSE,
     course_name |-> NoneVal]

\* An empty dictionary ({}), as a record: result["neo4j"] and result["qdrant"]
\* before a phase fills them.
EmptyDict == [empty |-> TRUE]

\* supported_extensions
supported_extensions ==
    {<<".", "p", "d", "f">>, <<".", "d", "o", "c", "x">>, <<".", "p", "p", "t", "x">>,
     <<".", "t", "x", "t">>}

\* os.path.splitext(filename)[1].lower(): from the last dot on, empty when the
\* name has no dot or only a leading one.
FileExt(filename) ==
    LET dots == {k \in 2..Len(filename) : filename[k] = "."}
        last == CHOOSE k \in dots : \A j \in dots : j <= k
    IN  IF dots = {} THEN <<>>
        ELSE Lower(SubSeq(filename, last, Len(filename)))

\* The loop of ingest_course over os.listdir(materials_folder), from listing[i]
\* on.  acc is qdrant_stats with the store: [documents_processed,
\* documents_skipped, total_chunks_added, qdrant].  A document whose processing
\* raises is recorded as skipped and the loop goes on; a processed document's
\* chunks (one per document here) are added to the store.
RECURSIVE ProcessDocuments(_, _, _, _, _)
ProcessDocuments(acc, instance, course_name, env, i) ==
    IF i > Len(env.listing) THEN acc
    ELSE LET filename == env.listing[i]
             syllabus_ctx == get_context_for_document(instance, filename)
             doc_result == [filename |-> filename,
                            syllabus_linked |-> syllabus_ctx # NoContext]
             chunk == [document |-> filename, course_name |-> course_name]
             after ==
                 IF FileExt(filename) \notin supported_extensions THEN acc
                 ELSE IF filename \in env.failing_documents
                 THEN [acc EXCEPT !.documents_skipped = Append(@, doc_result)]
                 ELSE [acc EXCEPT !.documents_processed = Append(@, doc_result),
                                  !.total_chunks_added = @ + 1,
                                  !.qdrant = Append(@, chunk)]
         IN  ProcessDocuments(after, instance, course_name, env, i + 1)

\* Phase 2 with a failure of the phase leaving success False.
IngestPhase2_FailureFatal(result, q, lk, course_name, file, env) ==
    LET loaded == load_syllabus(NewLinker, file, course_name)
        done == ProcessDocuments([documents_processed |-> <<>>,
                                  documents_skipped |-> <<>>,
                                  total_chunks_added |-> 0, qdrant |-> q],
                                 loaded.self, course_name, env, 1)
    IN  IF ~env.linker_available \/ ~env.ai_core_available \/ ~env.vector_db_available
        THEN [result |-> [result EXCEPT !.errors = Append(@, "Missing modules")],
              linker |-> lk, qdrant |-> q]
        ELSE IF loaded.raised \/ env.listdir_fails
        THEN [result |-> [result EXCEPT !.errors = Append(@, "Qdrant ingestion failed")],
              linker |-> loaded.self, qdrant |-> q]
        ELSE [result |-> [result EXCEPT
                  !.success = TRUE,
                  !.qdrant = [syllabus_entries_loaded |-> loaded.value,
                              documents_processed |-> done.documents_processed,
                              documents_skipped |-> done.documents_skipped,
                              total_chunks_added |-> done.total_chunks_added]],
              linker |-> loaded.self, qdrant |-> done.qdrant]

\* The end of phase 2 (lines 205-213): the statistics and the store after the
\* loop over the documents.
Phase2Done(result, loaded, done) ==
    [result |-> [result EXCEPT
         !.success = TRUE,
         !.qdrant = [syllabus_entries_loaded |-> loaded.value,
                     documents_processed |-> done.documents_processed,
                     documents_skipped |-> done.documents_skipped,
                     total_chunks_added |-> done.total_chunks_added]],
     linker |-> loaded.self, qdrant |-> done.qdrant]

\* The try block of phase 2 (lines 127-209), loaded being what load_syllabus
\* gave on a new instance: an exception of load_syllabus or of os.listdir is
\* caught, the error appended, and success set all the same.
Phase2Linked(result, q, course_name, env, loaded) ==
    IF loaded.raised \/ env.listdir_fails
    THEN [result |-> [result EXCEPT !.errors = Append(@, "Qdrant ingestion failed"),
                                    !.success = TRUE],
          linker |-> loaded.self, qdrant |-> q]
    ELSE Phase2Done(result, loaded,
                    ProcessDocuments([documents_processed |-> <<>>,
                                      documents_skipped |-> <<>>,
                                      total_chunks_added |-> 0, qdrant |-> q],
                                     loaded.self, course_name, env, 1))

\* Phase 2 of ingest_course (lines 113-213), result being the result after
\* phase 1, q the vector store and lk the linker instance of the call before.
\* A missing module skips the phase with success set.
IngestPhase2(result, q, lk, course_name, file, env) ==
    IF ~env.linker_available \/ ~env.ai_core_available \/ ~env.vector_db_available
    THEN [result |-> [result EXCEPT !.errors = Append(@, "Missing modules"),
                                    !.success = TRUE,
                                    !.qdrant = [status |-> "skipped"]],
          linker |-> lk, qdrant |-> q]
    ELSE Phase2Linked(result, q, course_name, env,
                      load_syllabus(NewLinker, file, course_name))

\* result["neo4j"]: the six counts of the summary of the build.
Neo4jCounts(neo4j_result) ==
    [modules_created |-> neo4j_result.modules_created,
     topics_created |-> neo4j_result.topics_created,
     subtopics_created |-> neo4j_result.subtopics_created,
     precedes_relationships |-> neo4j_result.precedes_relationships,
     has_topic_relationships |-> neo4j_result.has_topic_relationships,
     prerequisite_of_relationships |-> neo4j_result.prerequisite_of_relationships]

\* What ingest_course leaves when phase 1 completed: the graph built, and the
\* result, linker instance and vector store of phase 2.
IngestCompleted(graph, phase2) ==
    [result |-> phase2.result, raised |-> FALSE, graph |-> graph,
     linker |-> phase2.linker, qdrant |-> phase2.qdrant]

\* ingest_course(syllabus_csv_path, materials_folder, course_name) on graph g,
\* vector store q, in environment env: the result dictionary, whether the call
\* raised, and the graph, linker instance and vector store it leaves.  In phase
\* 1 ingest_from_unified_csv raises on a file it cannot decode or without a
\* topic column (nothing written) and when the store fails in pass
\* env.store_fails_at (the passes before it committed); the except clause
\* appends the error and returns.
ingest_course(g, q, lk, course_name, file, env) ==
    LET result == [success |-> FALSE, course_name |-> course_name,
                   neo4j |-> EmptyDict, qdrant |-> EmptyDict, errors |-> <<>>]
        failed(error, graph) ==
            [result |-> [result EXCEPT !.errors = Append(@, error)],
             raised |-> FALSE, graph |-> graph, linker |-> lk, qdrant |-> q]
    IN  IF ~env.csv_exists THEN failed("Syllabus CSV not found", g)
        ELSE IF ~env.folder_is_dir THEN failed("Materials folder not found", g)
        ELSE IF ~env.handler_available
        THEN failed("curriculum_graph_handler not available", g)
        ELSE IF ~file.decodable \/ ~file.topic_col
        THEN failed("Neo4j ingestion failed", g)
        ELSE IF env.store_fails_at > 0
        THEN failed("Neo4j ingestion failed",
                    PassesUpTo(g, course_name, parse_unified_csv(file),
                               env.store_fails_at - 1))
        ELSE IngestCompleted(
                 ingest_from_unified_csv(g, course_name, file),
                 IngestPhase2([result EXCEPT !.neo4j =
                                  Neo4jCounts(build_curriculum_graph_result(
                                      g, course_name, parse_unified_csv(file)))],
                              q, lk, course_name, file, env))

(***************************************************************************)
(* State                                                                   *)
(***************************************************************************)

VARIABLES
    nodes,      \* the graph store: bag of node records
    edges,      \* the graph store: bag of edge records
    calls,      \* number of build calls made so far, counted up to MaxCalls
    job,        \* the caller's current ingestion: [phase, course, table, failed_at]
    builds,     \* the concurrent build_curriculum_graph calls: [pc, course, input]
    start,      \* the graph as it was when the current call(s) began
    reply,      \* the call just made, its arguments and the value it returned
    linker,     \* the SyllabusQdrantLinker instance: [syllabus_entries,
                \* resource_to_entries, loaded, course_name]
    qdrant      \* the vector store: the documents whose chunks were added, in order

vars == <<nodes, edges, calls, job, builds, start, reply, linker, qdrant>>

Graph == [nodes |-> nodes, edges |-> edges]

SetGraph(g) == nodes' = g.nodes /\ edges' = g.edges

(***************************************************************************)
(* Bounds and input domains                                                *)
(***************************************************************************)

\* Data rows of a table in the specifications that run several calls.
MaxRows == 2
\* Data rows of a table in the specification of one ingestion of an empty graph.
MaxRowsOnce == 3
\* calls counts up to here and stays.
MaxCalls == 2

\* Course names: two that differ in letter case only.
CourseC == <<"c">>
CourseUpperC == <<"C">>

ModuleCells == {<<"a">>, <<"b">>}
TopicCells == {<<"t">>, <<"w">>}
SubtopicCells == {<<>>, <<"s">>}

TablesOf(module_cols, module_cells, topic_cells, subtopic_cells, max_rows) ==
    {[module_col |-> mc, subtopic_col |-> TRUE, rows |-> r] :
        mc \in module_cols,
        r \in UNION {[1..n -> [module : module_cells, topic : topic_cells,
                               subtopics : subtopic_cells]] : n \in 0..max_rows}}

\* The syllabus files of the specifications that run several calls.
Tables == TablesOf({TRUE}, ModuleCells, TopicCells, SubtopicCells, MaxRows)

NoTable == [module_col |-> TRUE, subtopic_col |-> TRUE, rows |-> <<>>]
IdleJob == [phase |-> "idle", course |-> NoneVal, table |-> NoTable, failed_at |-> 0]

NoInput == [modules |-> <<>>, topics |-> <<>>, subtopics |-> <<>>]
IdleBuild == [pc |-> "idle", course |-> NoneVal, input |-> NoInput]
Procs == {1, 2}

\* No call has returned since the caller last took a reply.
NoReply == [op |-> "none", course |-> NoneVal, topic |-> NoneVal, completed |-> <<>>,
            value |-> NoneVal]

Min(a, b) == IF a < b THEN a ELSE b

(***************************************************************************)
(* Spec: a single caller; every call runs to its end before the next.      *)
(***************************************************************************)

Init ==
    /\ nodes = EmptyBag
    /\ edges = EmptyBag
    /\ calls = 0
    /\ job = IdleJob
    /\ builds = [p \in Procs |-> IdleBuild]
    /\ start = EmptyGraph
    /\ reply = NoReply
    /\ linker = NewLinker
    /\ qdrant = <<>>

\* ingest_from_unified_csv(course, file) with the store reachable throughout.
Ingest(course, table) ==
    /\ SetGraph(ingest_from_unified_csv(Graph, course, table))
    /\ calls' = Min(calls + 1, MaxCalls)
    /\ UNCHANGED <<job, builds, start, reply, linker, qdrant>>

\* ingest_from_unified_csv(course, file) with the store unreachable from pass k
\* on: execute_write of pass k raises, the passes before it are committed.
IngestFails(course, table, k) ==
    /\ SetGraph(PassesUpTo(Graph, course, parse_unified_csv(table), k - 1))
    /\ calls' = Min(calls + 1, MaxCalls)
    /\ UNCHANGED <<job, builds, start, reply, linker, qdrant>>

\* delete_course_curriculum(course)
Delete(course) ==
    /\ SetGraph(delete_course_curriculum(Graph, course))
    /\ UNCHANGED <<calls, job, builds, start, reply, linker, qdrant>>

Next ==
    \/ \E t \in Tables : Ingest(CourseC, t)
    \/ \E t \in Tables, k \in 1..3 : IngestFails(CourseC, t, k)
    \/ \E c \in {CourseC, CourseUpperC} : Delete(c)

Spec == Init /\ [][Next]_vars

(***************************************************************************)
(* SpecCaller: a caller that ingests a syllabus file and then either runs  *)
(* the same ingestion again, or, when the store became unreachable during  *)
(* the build, retries it with the same file.  job is the call in hand and  *)
(* start the graph as it was when the call was first made.                 *)
(***************************************************************************)

\* First call, store reachable throughout: all three passes commit.
SubmitOk(course, table) ==
    /\ job.phase = "idle"
    /\ SetGraph(ingest_from_unified_csv(Graph, course, table))
    /\ job' = [phase |-> "ok", course |-> course, table |-> table, failed_at |-> 0]
    /\ start' = Graph
    /\ UNCHANGED <<calls, builds, reply, linker, qdrant>>

\* A failing pass whose writes stay (no rollback of the transaction that raised).
SubmitFails_NoRollback(course, table, k) ==
    /\ job.phase = "idle"
    /\ SetGraph(PassesUpTo(Graph, course, parse_unified_csv(table), k))
    /\ job' = [phase |-> "failed", course |-> course, table |-> table, failed_at |-> k]
    /\ start' = Graph
    /\ UNCHANGED <<calls, builds, reply, linker, qdrant>>

\* First call, store unreachable from pass k on: build_curriculum_graph raises
\* out of execute_write of pass k; passes 1..k-1 are committed.
SubmitFails(course, table, k) ==
    /\ job.phase = "idle"
    /\ SetGraph(PassesUpTo(Graph, course, parse_unified_csv(table), k - 1))
    /\ job' = [phase |-> "failed", course |-> course, table |-> table, failed_at |-> k]
    /\ start' = Graph
    /\ UNCHANGED <<calls, builds, reply, linker, qdrant>>

\* The same ingestion a second time, right after the first.
Rerun ==
    /\ job.phase = "ok"
    /\ SetGraph(ingest_from_unified_csv(Graph, job.course, job.table))
    /\ job' = [job EXCEPT !.phase = "reran"]
    /\ UNCHANGED <<calls, builds, start, reply, linker, qdrant>>

\* The complete build again after a failed one, on whatever the failed one left.
Retry ==
    /\ job.phase = "failed"
    /\ SetGraph(ingest_from_unified_csv(Graph, job.course, job.table))
    /\ job' = [job EXCEPT !.phase = "retried"]
    /\ UNCHANGED <<calls, builds, start, reply, linker, qdrant>>

\* The caller is done with this file.
Finish ==
    /\ job.phase \in {"ok", "failed", "reran", "retried"}
    /\ job' = IdleJob
    /\ start' = EmptyGraph
    /\ UNCHANGED <<nodes, edges, calls, builds, reply, linker, qdrant>>

DeleteIdle(course) ==
    /\ job.phase = "idle"
    /\ Delete(course)

NextCaller ==
    \/ \E t \in Tables : SubmitOk(CourseC, t)
    \/ \E t \in Tables, k \in 1..3 : SubmitFails(CourseC, t, k)
    \/ Rerun
    \/ Retry
    \/ Finish
    \/ \E c \in {CourseC, CourseUpperC} : DeleteIdle(c)

SpecCaller == Init /\ [][NextCaller]_vars

(***************************************************************************)
(* SpecOnce: one ingestion of one syllabus file into an empty graph.  The  *)
(* file is drawn in the initial state from tables whose labels collide     *)
(* under normalize_id (letter case, space versus hyphen), with and without *)
(* a module column, with empty module and topic cells.                     *)
(***************************************************************************)

OnceModuleCells == {<<"U", "-", "1">>, <<"u", "-", "1">>, <<"u", " ", "1">>, <<"v">>, <<>>}
OnceTopicCells == {<<"t">>, <<"w">>, <<" ">>}
OnceSubtopicCells == {<<>>, <<"s">>, <<"S", ",", " ", "r">>}

OnceTables ==
    TablesOf({TRUE}, OnceModuleCells, OnceTopicCells, OnceSubtopicCells, MaxRowsOnce)
    \cup TablesOf({FALSE}, {<<>>}, OnceTopicCells, OnceSubtopicCells, MaxRowsOnce)

InitOnce ==
    /\ nodes = EmptyBag
    /\ edges = EmptyBag
    /\ calls = 0
    /\ \E t \in OnceTables :
           job = [phase |-> "submitted", course |-> CourseC, table |-> t, failed_at |-> 0]
    /\ builds = [p \in Procs |-> IdleBuild]
    /\ start = EmptyGraph
    /\ reply = NoReply
    /\ linker = NewLinker
    /\ qdrant = <<>>

\* ingest_from_unified_csv(job.course, job.table) on the empty graph.
IngestOnce ==
    /\ job.phase = "submitted"
    /\ SetGraph(ingest_from_unified_csv(Graph, job.course, job.table))
    /\ job' = [job EXCEPT !.phase = "ok"]
    /\ UNCHANGED <<calls, builds, start, reply, linker, qdrant>>

NextOnce == IngestOnce

SpecOnce == InitOnce /\ [][NextOnce]_vars

(***************************************************************************)
(* SpecConc: two build_curriculum_graph calls running at the same time.    *)
(* Each pass is one execute_write transaction and so one step; the passes  *)
(* of the two calls interleave in every order.  The first call builds      *)
(* course "c", the second course "c" or course "C".                        *)
(***************************************************************************)

\* modules.csv files: module ids in either letter case, one file out of order.
ModulesCsvs ==
    {<<>>,
     <<[module_id |-> <<"A">>, module_name |-> <<"a">>, order |-> <<"1">>]>>,
     <<[module_id |-> <<"b">>, module_name |-> <<"b">>, order |-> <<"1">>]>>,
     <<[module_id |-> <<"b">>, module_name |-> <<"b">>, order |-> <<"2">>],
       [module_id |-> <<"a">>, module_name |-> <<"a">>, order |-> <<"1">>]>>}

\* topics.csv files: the topic names a module that the file set may not hold.
TopicsCsvs ==
    {<<>>,
     <<[topic_id |-> <<"t">>, topic_name |-> <<"t">>, module_id |-> <<"b">>]>>,
     <<[topic_id |-> <<"w">>, topic_name |-> <<"w">>, module_id |-> <<"a">>]>>}

SubtopicsCsvs ==
    {<<>>,
     <<[subtopic_id |-> <<"s">>, subtopic_name |-> <<"s">>, topic_id |-> <<"t">>]>>}

CsvFiles ==
    [modules_csv : ModulesCsvs, topics_csv : TopicsCsvs, subtopics_csv : SubtopicsCsvs]

\* What the concurrent calls are given: the parse of a unified file, or of three
\* files.
ConcInputs == {parse_unified_csv(t) : t \in Tables} \cup {ParseCsvs(f) : f \in CsvFiles}

InitConc ==
    /\ nodes = EmptyBag
    /\ edges = EmptyBag
    /\ calls = 0
    /\ job = IdleJob
    /\ \E i1 \in ConcInputs, i2 \in ConcInputs, c2 \in {CourseC, CourseUpperC} :
           builds = (1 :> [pc |-> "pass1", course |-> CourseC, input |-> i1]
                  @@ 2 :> [pc |-> "pass1", course |-> c2, input |-> i2])
    /\ start = EmptyGraph
    /\ reply = NoReply
    /\ linker = NewLinker
    /\ qdrant = <<>>

RunPass(p, pc_now, pc_next, g) ==
    /\ builds[p].pc = pc_now
    /\ SetGraph(g)
    /\ builds' = [builds EXCEPT ![p].pc = pc_next]
    /\ UNCHANGED <<calls, job, start, reply, linker, qdrant>>

\* session.execute_write(_build_modules_transactional, course, modules)
Pass1(p) ==
    RunPass(p, "pass1", "pass2",
            _build_modules_transactional(Graph, builds[p].course, builds[p].input.modules))

\* Pass 2 run on the graph as it was when the calls began, in place of the graph
\* as the transactions committed so far have left it.
Pass2_Stale(p) ==
    RunPass(p, "pass2", "pass3",
            _build_topics_transactional(start, builds[p].course, builds[p].input.topics))

\* session.execute_write(_build_topics_transactional, course, topics)
Pass2(p) ==
    RunPass(p, "pass2", "pass3",
            _build_topics_transactional(Graph, builds[p].course, builds[p].input.topics))

\* session.execute_write(_build_subtopics_transactional, course, subtopics)
Pass3(p) ==
    RunPass(p, "pass3", "done",
            _build_subtopics_transactional(Graph, builds[p].course, builds[p].input.subtopics))

NextConc ==
    \/ \E p \in Procs : Pass1(p)
    \/ \E p \in Procs : Pass2(p)
    \/ \E p \in Procs : Pass3(p)

SpecConc == InitConc /\ [][NextConc]_vars

(***************************************************************************)
(* SpecQuery: a caller that builds up to MaxCalls times, under course "c"  *)
(* or "C", deletes, and between these calls the read operations.  reply is *)
(* the call just made with the value it returned, start the graph that a   *)
(* build or a delete found; the caller takes the reply before the next     *)
(* call.                                                                   *)
(***************************************************************************)

Courses == {CourseC, CourseUpperC}

\* A course name that differs from the two others in more than letter case, and
\* the one syllabus file built under it: a topic with two subtopics, a row with
\* no topic, a row with no module.
CourseD == <<"d">>
TableD ==
    [module_col |-> TRUE, subtopic_col |-> TRUE,
     rows |-> <<[module |-> <<"a">>, topic |-> <<"t">>, subtopics |-> <<"s", ",", "r">>],
                [module |-> <<"b">>, topic |-> <<>>, subtopics |-> <<>>],
                [module |-> <<>>, topic |-> <<"w">>, subtopics |-> <<>>]>>]

AllCourses == Courses \cup {CourseD}

\* Topic ids as callers pass them: not yet normalized.
QueryTopics == {<<"T">>, <<"w">>}

\* Lists of completed subtopic ids as callers pass them.
CompletedLists == {<<>>, <<<<"S">>>>}

ReplyOf(op, course, topic, completed, value) ==
    [op |-> op, course |-> course, topic |-> topic, completed |-> completed,
     value |-> value]

\* A read operation: the graph is left as it is.
ReadCall(op, course, topic, completed, value) ==
    /\ reply = NoReply
    /\ reply' = ReplyOf(op, course, topic, completed, value)
    /\ UNCHANGED <<nodes, edges, calls, job, builds, start, linker, qdrant>>

\* ingest_from_unified_csv(course, file), store reachable.  (Of the summary it
\* returns, the six counts are not carried.)
BuildCall(course, table) ==
    /\ reply = NoReply
    /\ calls < MaxCalls
    /\ SetGraph(ingest_from_unified_csv(Graph, course, table))
    /\ calls' = calls + 1
    /\ start' = Graph
    /\ reply' = ReplyOf("build", course, NoneVal, <<>>,
                         [success |-> TRUE, course |-> course])
    /\ UNCHANGED <<job, builds, linker, qdrant>>

\* delete_course_curriculum(course): one query in one transaction.
DeleteCall(course) ==
    /\ reply = NoReply
    /\ SetGraph(delete_course_curriculum(Graph, course))
    /\ start' = Graph
    /\ reply' = ReplyOf("delete", course, NoneVal, <<>>,
                         delete_course_result(Graph, course))
    /\ UNCHANGED <<calls, job, builds, linker, qdrant>>

\* get_topic_prerequisites(course, topic_id)
PrerequisitesCall(course, topic_id) ==
    ReadCall("prerequisites", course, topic_id, <<>>,
             get_topic_prerequisites(Graph, course, topic_id))

\* detect_missing_prerequisites(course, topic_id, completed_subtopic_ids)
MissingCall(course, topic_id, completed) ==
    ReadCall("missing", course, topic_id, completed,
             detect_missing_prerequisites(Graph, course, topic_id, completed))

\* get_learning_path(course, target_topic_id)
LearningPathCall(course, topic_id) ==
    \E path \in LearningPaths(Graph, course, topic_id) :
        ReadCall("learning_path", course, topic_id, <<>>, path)

\* get_curriculum_visualization(course)
VisualizationCall(course) ==
    \E curriculum \in Traversals(Graph, course) :
        ReadCall("visualization", course, NoneVal, <<>>,
                 get_curriculum_visualization(course, curriculum))

\* The caller takes the reply.
Return ==
    /\ reply # NoReply
    /\ reply' = NoReply
    /\ start' = EmptyGraph
    /\ UNCHANGED <<nodes, edges, calls, job, builds, linker, qdrant>>

NextQuery ==
    \/ \E c \in Courses, t \in Tables : BuildCall(c, t)
    \/ BuildCall(CourseD, TableD)
    \/ \E c \in AllCourses : DeleteCall(c)
    \/ \E c \in AllCourses, t \in QueryTopics : PrerequisitesCall(c, t)
    \/ \E c \in AllCourses, t \in QueryTopics, done \in CompletedLists :
           MissingCall(c, t, done)
    \/ \E c \in AllCourses, t \in QueryTopics : LearningPathCall(c, t)
    \/ \E c \in AllCourses : VisualizationCall(c)
    \/ Return

SpecQuery == Init /\ [][NextQuery]_vars

(***************************************************************************)
(* SpecDetect: column detection on one header row.  The file is open and   *)
(* csv.DictReader has read the header row (reply.fieldnames); the one step *)
(* is the four find_column calls of parse_unified_csv, or those of         *)
(* SyllabusQdrantLinker.load_syllabus on the same header row.              *)
(***************************************************************************)

\* Headers in a header row, at most.
MaxHeaders == 3

Headers ==
    {<<"M", "o", "d", "u", "l", "e">>,
     <<"m", "o", "d", "u", "l", "e">>,
     <<" ", "u", "n", "i", "t">>,
     <<"T", "o", "p", "i", "c">>,
     <<"t", "i", "t", "l", "e">>,
     <<"L", "e", "c", "t", "u", "r", "e">>,
     <<"l", "e", "c", "t", "u", "r", "e", "_", "n", "o">>,
     <<"C", "o", "n", "c", "e", "p", "t", "s">>,
     <<"p", "r", "e", "r", "e", "q", "u", "i", "s", "i", "t", "e", "s">>,
     <<"x">>}

HeaderRows == UNION {[1..n -> Headers] : n \in 0..MaxHeaders}

InitDetect ==
    /\ nodes = EmptyBag
    /\ edges = EmptyBag
    /\ calls = 0
    /\ job = IdleJob
    /\ builds = [p \in Procs |-> IdleBuild]
    /\ start = EmptyGraph
    /\ \E fieldnames \in HeaderRows :
           reply = [op |-> "headers", fieldnames |-> fieldnames, value |-> NoneVal]
    /\ linker = NewLinker
    /\ qdrant = <<>>

DetectColumns ==
    /\ reply.op = "headers"
    /\ reply' = [op |-> "columns", fieldnames |-> reply.fieldnames,
                 value |-> ColumnMapping(reply.fieldnames)]
    /\ UNCHANGED <<nodes, edges, calls, job, builds, start, linker, qdrant>>

\* The find_column calls of SyllabusQdrantLinker.load_syllabus on the same
\* header row.
LinkerDetectColumns ==
    /\ reply.op = "headers"
    /\ reply' = [op |-> "linker_columns", fieldnames |-> reply.fieldnames,
                 value |-> LinkerColumnMapping(reply.fieldnames)]
    /\ UNCHANGED <<nodes, edges, calls, job, builds, start, linker, qdrant>>

NextDetect ==
    \/ DetectColumns
    \/ LinkerDetectColumns

SpecDetect == InitDetect /\ [][NextDetect]_vars

(***************************************************************************)
(* SpecText: the two string functions on one input.  The input is drawn in *)
(* the initial state: a resources cell for _parse_resources, or a raw id   *)
(* for normalize_id, which is then applied again to its own result.        *)
(***************************************************************************)

\* Characters of a resources cell, at most.
MaxResourceLen == 4
\* Characters of a raw id, at most.
MaxIdLen == 4

ResourceAlphabet == {"R", "r", "1", "2", " ", ";", ",", "h", "x"}

\* The resources cell of the syllabus example: "R1 Ch1; R2 Lec5; garbage".
SampleResources ==
    <<"R", "1", " ", "C", "h", "1", ";", " ", "R", "2", " ", "L", "e", "c", "5", ";",
      " ", "g", "a", "r", "b", "a", "g", "e">>

ResourceStrings ==
    UNION {[1..n -> ResourceAlphabet] : n \in 0..MaxResourceLen}
    \cup {SampleResources,
          <<"R", "1", " ", "C", "h", "a", "p", "t", "e", "r", ".", " ", "1", "2">>,
          <<"R", "2", "l", "e", "c", "t", "u", "r", "e", "3", " ", "x">>,
          <<"R", "1", " ", "C", "h", ",", "r", "1", " ", "C", "h", "1">>,
          <<"C", "h", "a", "p", "t", "e", "r", "1">>}

RawIdAlphabet == {"A", "a", " ", "\t", "-", "_"}

RawIds == UNION {[1..n -> RawIdAlphabet] : n \in 0..MaxIdLen}

InitText ==
    /\ nodes = EmptyBag
    /\ edges = EmptyBag
    /\ calls = 0
    /\ job = IdleJob
    /\ builds = [p \in Procs |-> IdleBuild]
    /\ start = EmptyGraph
    /\ \/ \E text \in ResourceStrings :
              reply = [op |-> "resources_str", text |-> text, value |-> NoneVal]
       \/ \E text \in RawIds :
              reply = [op |-> "raw_id", text |-> text, value |-> NoneVal]
    /\ linker = NewLinker
    /\ qdrant = <<>>

\* self._parse_resources(resources_str)
ParseResources ==
    /\ reply.op = "resources_str"
    /\ reply' = [op |-> "_parse_resources", text |-> reply.text,
                 value |-> _parse_resources(reply.text)]
    /\ UNCHANGED <<nodes, edges, calls, job, builds, start, linker, qdrant>>

\* normalize_id(raw_id)
NormalizeId ==
    /\ reply.op = "raw_id"
    /\ reply' = [op |-> "normalize_id", text |-> reply.text,
                 value |-> normalize_id(reply.text)]
    /\ UNCHANGED <<nodes, edges, calls, job, builds, start, linker, qdrant>>

\* normalize_id applied to the id that normalize_id returned.
NormalizeAgain ==
    /\ reply.op = "normalize_id"
    /\ reply' = [op |-> "normalize_id", text |-> reply.value,
                 value |-> normalize_id(reply.value)]
    /\ UNCHANGED <<nodes, edges, calls, job, builds, start, linker, qdrant>>

NextText ==
    \/ ParseResources
    \/ NormalizeId
    \/ NormalizeAgain

SpecText == InitText /\ [][NextText]_vars

(***************************************************************************)
(* SpecLinker: one SyllabusQdrantLinker instance.  The caller loads up to  *)
(* MaxCalls syllabus files, some of which make load_syllabus raise, and    *)
(* between the loads looks documents up.  job is the last load_syllabus    *)
(* call: its file, and whether it returned ("loaded") or raised ("failed").*)
(***************************************************************************)

ResourceCells ==
    {SampleResources,
     <<"R", "2", " ", "C", "h", "3">>,
     <<"r", "1", ",", "R", "1", " ", "C", "h", "2">>}

LinkerRows ==
    [module : {<<"a">>}, lecture : {<<"L", "2">>}, topic : {<<"t">>, <<"w">>, <<>>},
     subtopics : {<<"s">>}, resources : ResourceCells]

\* Syllabus files that load.
LoadableFiles ==
    {[decodable |-> TRUE, topic_col |-> TRUE, module_col |-> TRUE,
      lecture_num_col |-> TRUE, subtopic_col |-> TRUE, resource_col |-> TRUE,
      rows |-> r] : r \in UNION {[1..n -> LinkerRows] : n \in 0..MaxRows}}

\* The rows of the files on which load_syllabus raises.
FailingRows ==
    <<[module |-> <<"a">>, lecture |-> <<"L", "2">>, topic |-> <<"t">>,
       subtopics |-> <<"s">>, resources |-> <<"R", "2", " ", "C", "h", "3">>]>>

\* A file no encoding reads, and a file without a topic column.
FailingFiles ==
    {[decodable |-> FALSE, topic_col |-> TRUE, module_col |-> TRUE,
      lecture_num_col |-> TRUE, subtopic_col |-> TRUE, resource_col |-> TRUE,
      rows |-> FailingRows],
     [decodable |-> TRUE, topic_col |-> FALSE, module_col |-> TRUE,
      lecture_num_col |-> TRUE, subtopic_col |-> TRUE, resource_col |-> TRUE,
      rows |-> FailingRows]}

SyllabusFiles == LoadableFiles \cup FailingFiles

\* "R2_notes.pdf", "r1.pdf", "R3.pdf", "notes_R1.pdf"
DocumentNames ==
    {<<"R", "2", "_", "n", "o", "t", "e", "s", ".", "p", "d", "f">>,
     <<"r", "1", ".", "p", "d", "f">>,
     <<"R", "3", ".", "p", "d", "f">>,
     <<"n", "o", "t", "e", "s", "_", "R", "1", ".", "p", "d", "f">>}

\* linker.load_syllabus(file, course_name), returning or raising.
LoadCall(file) ==
    /\ reply = NoReply
    /\ calls < MaxCalls
    /\ \E res \in {load_syllabus(linker, file, CourseC)} :
           /\ linker' = res.self
           /\ job' = [phase |-> IF res.raised THEN "failed" ELSE "loaded",
                      course |-> CourseC, table |-> file, failed_at |-> 0]
           /\ reply' = [op |-> "load_syllabus", raised |-> res.raised,
                        value |-> res.value]
    /\ calls' = calls + 1
    /\ UNCHANGED <<nodes, edges, builds, start, qdrant>>

\* linker.get_context_for_document(document_name)
ContextCall(document_name) ==
    /\ reply = NoReply
    /\ reply' = [op |-> "get_context_for_document", document_name |-> document_name,
                 value |-> get_context_for_document(linker, document_name)]
    /\ UNCHANGED <<nodes, edges, calls, job, builds, start, linker, qdrant>>

\* linker.get_all_contexts_for_document(document_name)
AllContextsCall(document_name) ==
    /\ reply = NoReply
    /\ reply' = [op |-> "get_all_contexts_for_document",
                 document_name |-> document_name,
                 value |-> get_all_contexts_for_document(linker, document_name)]
    /\ UNCHANGED <<nodes, edges, calls, job, builds, start, linker, qdrant>>

\* The caller takes the reply.
TakeReply ==
    /\ reply # NoReply
    /\ reply' = NoReply
    /\ UNCHANGED <<nodes, edges, calls, job, builds, start, linker, qdrant>>

NextLinker ==
    \/ \E file \in SyllabusFiles : LoadCall(file)
    \/ \E name \in DocumentNames : ContextCall(name)
    \/ \E name \in DocumentNames : AllContextsCall(name)
    \/ TakeReply

SpecLinker == Init /\ [][NextLinker]_vars

(***************************************************************************)
(* SpecAdvance: a caller of the orchestrator's read functions.  It builds  *)
(* course "c" from syllabus files (the reply is the summary of the build,  *)
(* and an identical build may follow at once), asks under the names "c"    *)
(* and "C" for the item after a topic, asks again with the id of the item  *)
(* it was given, and asks for the missing prerequisites of a topic.        *)
(***************************************************************************)

\* Topic ids as a learner's position gives them: the ids the graph stores.
ItemTopics == {<<"t">>, <<"w">>}

\* ingest_from_unified_csv(course, file), store reachable: the graph is built
\* and the summary of build_curriculum_graph returned.
IngestCall(course, table) ==
    /\ reply = NoReply \/ reply.op = "build_summary"
    /\ calls < MaxCalls
    /\ SetGraph(ingest_from_unified_csv(Graph, course, table))
    /\ calls' = calls + 1
    /\ job' = [phase |-> "ok", course |-> course, table |-> table, failed_at |-> 0]
    /\ start' = Graph
    /\ reply' = ReplyOf("build_summary", course, NoneVal, <<>>,
                         build_curriculum_graph_result(Graph, course,
                                                       parse_unified_csv(table)))
    /\ UNCHANGED <<builds, linker, qdrant>>

\* get_next_curriculum_item(course, current_topic_id)
NextItemCall(course, current_topic_id) ==
    \E item \in NextItems(Graph, course, current_topic_id) :
        ReadCall("next_item", course, current_topic_id, <<>>, item)

\* Auto-advance: get_next_curriculum_item again, with the id of the item the
\* last call returned.
AdvanceCall ==
    /\ reply.op = "next_item"
    /\ reply.value # NoItem
    /\ \E item \in NextItems(Graph, reply.course, reply.value.id) :
           reply' = ReplyOf("next_item", reply.course, reply.value.id, <<>>, item)
    /\ UNCHANGED <<nodes, edges, calls, job, builds, start, linker, qdrant>>

\* course_pipeline.detect_missing_prerequisites(course, topic_id, completed)
PipelineMissingCall(course, topic_id, completed) ==
    ReadCall("pipeline_missing", course, topic_id, completed,
             course_pipeline_detect_missing_prerequisites(Graph, course, topic_id,
                                                          completed))

NextAdvance ==
    \/ \E t \in Tables : IngestCall(CourseC, t)
    \/ \E c \in Courses, t \in ItemTopics : NextItemCall(c, t)
    \/ AdvanceCall
    \/ \E c \in Courses, t \in QueryTopics, done \in CompletedLists :
           PipelineMissingCall(c, t, done)
    \/ Return

SpecAdvance == Init /\ [][NextAdvance]_vars

(***************************************************************************)
(* SpecPipeline: a caller of ingest_course.  It ingests course "c" up to   *)
(* MaxCalls times, each time from a syllabus file and a materials folder   *)
(* in an environment with at most one fault: the file or the folder is not *)
(* there, a module failed to import, the file cannot be read, the graph    *)
(* store fails in one of the three passes, the folder cannot be listed, a  *)
(* document cannot be processed.  reply is the call with its file, its     *)
(* environment and the result; job is the outcome of phase 1.              *)
(***************************************************************************)

\* "notes.md"
NotesMd == <<"n", "o", "t", "e", "s", ".", "m", "d">>
\* "R2_notes.pdf"
R2NotesPdf == <<"R", "2", "_", "n", "o", "t", "e", "s", ".", "p", "d", "f">>
\* "r1.PDF"
R1Pdf == <<"r", "1", ".", "P", "D", "F">>

\* What os.listdir returns for the materials folders.
Listings == {<<>>, <<R2NotesPdf>>, <<NotesMd, R1Pdf, R2NotesPdf>>}

\* The syllabus files: those of at most one row that load, and the two that
\* make the parsers raise.
PipelineFiles == {f \in LoadableFiles : Len(f.rows) <= 1} \cup FailingFiles

AllEnvironments ==
    [csv_exists : BOOLEAN, folder_is_dir : BOOLEAN, handler_available : BOOLEAN,
     store_fails_at : 0..3, linker_available : BOOLEAN, ai_core_available : BOOLEAN,
     vector_db_available : BOOLEAN, listdir_fails : BOOLEAN, listing : Listings,
     failing_documents : {{}, {R2NotesPdf}}]

FaultsOf(env) ==
    {f \in {"csv", "folder", "handler", "store", "linker", "ai_core", "vector_db",
            "listdir", "document"} :
        \/ f = "csv" /\ ~env.csv_exists
        \/ f = "folder" /\ ~env.folder_is_dir
        \/ f = "handler" /\ ~env.handler_available
        \/ f = "store" /\ env.store_fails_at > 0
        \/ f = "linker" /\ ~env.linker_available
        \/ f = "ai_core" /\ ~env.ai_core_available
        \/ f = "vector_db" /\ ~env.vector_db_available
        \/ f = "listdir" /\ env.listdir_fails
        \/ f = "document" /\ env.failing_documents # {}}

Environments == {env \in AllEnvironments : Cardinality(FaultsOf(env)) <= 1}

\* ingest_course(file, folder, course_name) called in environment env.
IngestCourseCall(course_name, file, env) ==
    /\ reply = NoReply
    /\ calls < MaxCalls
    /\ \E out \in {ingest_course(Graph, qdrant, linker, course_name, file, env)} :
           /\ SetGraph(out.graph)
           /\ linker' = out.linker
           /\ qdrant' = out.qdrant
           /\ job' = [phase |-> IF out.result.neo4j # EmptyDict THEN "ok" ELSE "failed",
                      course |-> course_name, table |-> file,
                      failed_at |-> env.store_fails_at]
           /\ reply' = [op |-> "ingest_course", course |-> course_name, file |-> file,
                        env |-> env, raised |-> out.raised, value |-> out.result]
    /\ calls' = calls + 1
    /\ start' = Graph
    /\ UNCHANGED builds

NextPipeline ==
    \/ \E file \in PipelineFiles, env \in Environments :
           IngestCourseCall(CourseC, file, env)
    \/ Return

SpecPipeline == Init /\ [][NextPipeline]_vars

(***************************************************************************)
(* Properties                                                              *)
(***************************************************************************)

\* C1: running the same ingestion a second time right after the first changes
\* nothing in the graph: the step of the second run leaves the bag of nodes (and
\* so the set of (kind, id, course) keys) and the bag of edges as the first run
\* left them; no node and no edge is created.
C1_SecondRunChangesNothing ==
    [][(job.phase = "ok" /\ job'.phase = "reran") => (nodes' = nodes /\ edges' = edges)]_vars

\* A second run has been made on a graph that holds edges of all three kinds.
C1_Witness ==
    /\ job.phase = "reran"
    /\ EdgesOf(Graph, "PRECEDES") # {}
    /\ EdgesOf(Graph, "HAS_TOPIC") # {}
    /\ EdgesOf(Graph, "PREREQUISITE_OF") # {}

\* C2: the graph never holds two nodes of one kind with the same (id, course)
\* and never two edges of one relationship kind between the same ordered pair of
\* endpoints.
C2_NoDuplicates ==
    /\ \A n \in BagToSet(nodes) : CopiesIn(n, nodes) = 1
    /\ \A n1, n2 \in BagToSet(nodes) : NodeKey(n1) = NodeKey(n2) => n1 = n2
    /\ \A e \in BagToSet(edges) : CopiesIn(e, edges) = 1

\* After a second build with an edited module list: a module that is now second
\* in order still has its outgoing PRECEDES edge from the time it was first.
C2_Witness ==
    /\ calls = MaxCalls
    /\ \E n \in NodesOf(Graph, "Module") :
           /\ n.order = 2
           /\ \E e \in EdgesOf(Graph, "PRECEDES") : e.from = NodeKey(n)
    /\ EdgesOf(Graph, "HAS_TOPIC") # {}
    /\ EdgesOf(Graph, "PREREQUISITE_OF") # {}

\* The keys reachable from key k along edges of kind rel in one or more steps.
RECURSIVE ReachVia(_, _, _)
ReachVia(g, rel, seen) ==
    LET more == {e.to : e \in {x \in EdgesOf(g, rel) : x.from \in seen}}
    IN  IF more \subseteq seen THEN seen ELSE ReachVia(g, rel, seen \cup more)

Successors(g, rel, k) == {e.to : e \in {x \in EdgesOf(g, rel) : x.from = k}}

\* C3: the PRECEDES edges of the course form a single linear chain: at most one
\* outgoing and at most one incoming PRECEDES edge per module, no self-loop, no
\* cycle.
C3_LinearChain ==
    LET P == EdgesOf(Graph, "PRECEDES")
    IN  /\ \A e1, e2 \in P : e1.from = e2.from => e1 = e2
        /\ \A e1, e2 \in P : e1.to = e2.to => e1 = e2
        /\ \A e \in P : e.from # e.to
        /\ \A e \in P : e.from \notin ReachVia(Graph, "PRECEDES", {e.to})

\* C7: every Topic node has at most one incoming HAS_TOPIC edge.
C7_TopicInOneModule ==
    \A e1, e2 \in EdgesOf(Graph, "HAS_TOPIC") : e1.to = e2.to => e1 = e2

\* The module label row i of a table names: the stripped module cell, or the
\* per-row label when the table has no module column.
LabelAt(table, i) ==
    IF table.module_col THEN Strip(table.rows[i].module) ELSE SyntheticModule(i + 1)

\* The rows where a module label appears for the first time.
FirstAppearances(table) ==
    {i \in 1..Len(table.rows) :
        /\ LabelAt(table, i) # <<>>
        /\ \A j \in 1..(i - 1) : LabelAt(table, j) # LabelAt(table, i)}

\* The row of the k-th label in order of first appearance.
KthAppearance(table, k) ==
    CHOOSE i \in FirstAppearances(table) :
        Cardinality({j \in FirstAppearances(table) : j < i}) = k - 1

\* C4: a table that names N >= 2 module labels, ingested into an empty graph,
\* yields modules with order 1..N in order of first appearance, and N - 1
\* PRECEDES edges in the graph.
C4_ChainOfN ==
    LET table == job.table
        N == Cardinality(FirstAppearances(table))
        modules == parse_unified_csv(table).modules
    IN  (job.phase = "ok" /\ N >= 2) =>
            /\ Len(modules) = N
            /\ \A k \in 1..N :
                   /\ modules[k].order = k
                   /\ modules[k].name = LabelAt(table, KthAppearance(table, k))
            /\ CopiesOfAll(EdgesOf(Graph, "PRECEDES"), edges) = N - 1

\* C5: no two modules in the list parse_unified_csv returns have the same id.
C5_UniqueModuleIds ==
    LET modules == parse_unified_csv(job.table).modules
    IN  \A i, j \in 1..Len(modules) : modules[i].id = modules[j].id => i = j

\* The subtopic names in the subtopic cell of row i.
SubtopicNamesAt(table, i) ==
    IF table.subtopic_col
    THEN LET parts == Split(Strip(table.rows[i].subtopics), ",")
         IN  {Strip(parts[k]) : k \in 1..Len(parts)} \ {<<>>}
    ELSE {}

\* C6: a subtopic name in the cells of two rows with different topics becomes
\* one Subtopic node with a PREREQUISITE_OF edge to each of the two topics, and
\* get_topic_prerequisites returns it for both.
C6_SharedSubtopicLinkedTwice ==
    LET table == job.table
        topic(i) == Strip(table.rows[i].topic)
        Returned(name, topic_name) ==
            LET rows == get_topic_prerequisites(Graph, job.course, topic_name)
            IN  \E k \in 1..Len(rows) : rows[k].id = normalize_id(name)
    IN  job.phase = "ok" =>
            \A i, j \in 1..Len(table.rows) :
                (/\ i < j
                 /\ topic(i) # <<>> /\ topic(j) # <<>>
                 /\ normalize_id(topic(i)) # normalize_id(topic(j))) =>
                \A name \in SubtopicNamesAt(table, i) \cap SubtopicNamesAt(table, j) :
                    /\ Cardinality({n \in NodesOf(Graph, "Subtopic") :
                                       n.id = normalize_id(name)}) = 1
                    /\ \A r \in {i, j} :
                           /\ \E e \in EdgesOf(Graph, "PREREQUISITE_OF") :
                                  /\ e.from = <<"Subtopic", normalize_id(name), job.course>>
                                  /\ e.to = <<"Topic", normalize_id(topic(r)), job.course>>
                           /\ Returned(name, topic(r))

\* The nodes of one kind and the edges of one relationship kind, with their counts.
PartOf(g, kind, rel) ==
    <<[n \in NodesOf(g, kind) |-> g.nodes[n]], [e \in EdgesOf(g, rel) |-> g.edges[e]]>>

\* C8, as claimed: a build that failed because the store was unreachable left
\* the graph as it was before the call.
C8_FailedBuildLeavesGraph ==
    job.phase = "failed" => Graph = start

\* C8, amended: a build that failed at pass k has applied no write of pass k or
\* of a later pass: failing at pass 1 it left the graph as it was; failing at
\* pass 2 it left every Topic node, HAS_TOPIC edge, Subtopic node and
\* PREREQUISITE_OF edge as it was; failing at pass 3 every Subtopic node and
\* PREREQUISITE_OF edge.
C8_FailedPassWritesNothing ==
    job.phase = "failed" =>
        /\ job.failed_at = 1 => Graph = start
        /\ job.failed_at <= 2 =>
               PartOf(Graph, "Topic", "HAS_TOPIC") = PartOf(start, "Topic", "HAS_TOPIC")
        /\ job.failed_at <= 3 =>
               PartOf(Graph, "Subtopic", "PREREQUISITE_OF")
                   = PartOf(start, "Subtopic", "PREREQUISITE_OF")

\* A build failed at pass 2 on a file with topics: the modules of pass 1 are in
\* the graph, which is no longer the graph the call started from.
C8_Witness ==
    /\ job.phase = "failed"
    /\ job.failed_at = 2
    /\ parse_unified_csv(job.table).topics # <<>>
    /\ Graph # start

\* C9: after a build that was aborted with pass 1 or pass 2 committed, the
\* complete build re-run with the same input ends in the graph an uninterrupted
\* build from the graph before the aborted call produces.
C9_RetryConverges ==
    (job.phase = "retried" /\ job.failed_at \in {2, 3}) =>
        Graph = build_curriculum_graph(start, job.course, parse_unified_csv(job.table))

\* A retry after an abort that left partial writes, on a graph that held edges
\* before the aborted call; the result holds edges of all three kinds.
C9_Witness ==
    /\ job.phase = "retried"
    /\ job.failed_at = 2
    /\ start.edges # EmptyBag
    /\ PassesUpTo(start, job.course, parse_unified_csv(job.table), 1) # start
    /\ EdgesOf(Graph, "PRECEDES") # {}
    /\ EdgesOf(Graph, "HAS_TOPIC") # {}
    /\ EdgesOf(Graph, "PREREQUISITE_OF") # {}

\* The passes call p has committed.
PassesDone(p) ==
    CASE builds[p].pc = "pass1" -> 0
      [] builds[p].pc = "pass2" -> 1
      [] builds[p].pc = "pass3" -> 2
      [] OTHER -> 3

\* The nodes and edges of a graph that carry the course name exactly.
CoursePart(g, course) ==
    LET ns == {n \in BagToSet(g.nodes) : n.course = course}
        es == {e \in BagToSet(g.edges) : e.from[3] = course /\ e.to[3] = course}
    IN  [nodes |-> [n \in ns |-> g.nodes[n]], edges |-> [e \in es |-> g.edges[e]]]

\* The two builds one after the other, p first.
SerialBuilds(p, q) ==
    build_curriculum_graph(
        build_curriculum_graph(start, builds[p].course, builds[p].input),
        builds[q].course, builds[q].input)

\* C10: two builds of different courses with their passes interleaved: at every
\* point the part of the graph under each course is what that build's committed
\* passes alone produce, every edge lies within one course, and when both are
\* done the graph is the graph of the two builds run one after the other, in
\* either order.
C10_DifferentCoursesIndependent ==
    builds[1].course # builds[2].course =>
        /\ \A p \in Procs :
               CoursePart(Graph, builds[p].course)
                   = CoursePart(PassesUpTo(start, builds[p].course, builds[p].input,
                                           PassesDone(p)),
                                builds[p].course)
        /\ \A e \in BagToSet(edges) : e.from[3] = e.to[3]
        /\ (\A p \in Procs : builds[p].pc = "done") =>
               /\ Graph = SerialBuilds(1, 2)
               /\ Graph = SerialBuilds(2, 1)

\* Both builds are done, for different courses, each with edges of all three
\* kinds in its course.
C10_Witness ==
    /\ builds[1].course # builds[2].course
    /\ \A p \in Procs :
           /\ builds[p].pc = "done"
           /\ \A rel \in {"PRECEDES", "HAS_TOPIC", "PREREQUISITE_OF"} :
                  \E e \in EdgesOf(Graph, rel) : e.from[3] = builds[p].course

\* The edges of a graph as a set.
EdgeSet(g) == BagToSet(g.edges)

\* C11: two builds of the same course with their passes interleaved.  When both
\* are done the graph holds the node keys of the two builds run one after the
\* other, and its edge set lies between what the two serial orders agree on and
\* what either of them produces; a build that runs after the other is done ends in
\* the serial result.  Within these limits the edge set can be the edge set of
\* neither serial order (C11_Witness).
C11_SameCourseInterleaving ==
    builds[1].course = builds[2].course =>
        /\ (\A p \in Procs : builds[p].pc = "done") =>
               /\ NodeKeys(Graph) = NodeKeys(SerialBuilds(1, 2))
               /\ NodeKeys(Graph) = NodeKeys(SerialBuilds(2, 1))
               /\ (EdgeSet(SerialBuilds(1, 2)) \cap EdgeSet(SerialBuilds(2, 1)))
                      \subseteq EdgeSet(Graph)
               /\ EdgeSet(Graph)
                      \subseteq (EdgeSet(SerialBuilds(1, 2)) \cup EdgeSet(SerialBuilds(2, 1)))
        /\ \A p, q \in Procs :
               (p # q /\ builds[p].pc = "done" /\ builds[q].pc = "pass1") =>
                   build_curriculum_graph(Graph, builds[q].course, builds[q].input)
                       = SerialBuilds(p, q)

\* Both builds of one course are done and the edge set of the graph is the edge
\* set of neither serial order.
C11_Witness ==
    /\ builds[1].course = builds[2].course
    /\ \A p \in Procs : builds[p].pc = "done"
    /\ EdgeSet(Graph) # EdgeSet(SerialBuilds(1, 2))
    /\ EdgeSet(Graph) # EdgeSet(SerialBuilds(2, 1))

\* C12: delete_course_curriculum(course) is one step after which the graph holds
\* no Module, Topic or Subtopic node of the course (course names compared as the
\* delete compares them, which covers the nodes keyed by exactly this name) and no
\* edge at such a node; it returns success = true and deleted_count = the number
\* of nodes removed; when no node of the course was there it returns
\* deleted_count 0, success = true, and the graph is as it was.
C12_DeleteRemovesCourse ==
    reply.op = "delete" =>
        LET matched == {n \in BagToSet(start.nodes) : InCourse(n, reply.course)}
        IN  /\ \A n \in BagToSet(nodes) : ~InCourse(n, reply.course)
            /\ \A n \in BagToSet(nodes) : n.course # reply.course
            /\ \A e \in BagToSet(edges) :
                   /\ e.from \in NodeKeys(Graph)
                   /\ e.to \in NodeKeys(Graph)
                   /\ e.from[3] # reply.course
                   /\ e.to[3] # reply.course
            /\ reply.value.success = TRUE
            /\ reply.value.deleted_count
                   = BagCardinality(start.nodes) - BagCardinality(nodes)
            /\ matched = {} => (reply.value.deleted_count = 0 /\ Graph = start)
            /\ matched # {} => reply.value.deleted_count > 0

\* A delete removed the nodes of a course that held all three node kinds and
\* edges of all three kinds, and returned their number; the graph still holds
\* edges of all three kinds, of another course.
C12_Witness ==
    /\ reply.op = "delete"
    /\ reply.value.deleted_count >= 3
    /\ \A kind \in {"Module", "Topic", "Subtopic"} :
           \E n \in NodesOf(start, kind) : n.course = reply.course
    /\ \A rel \in {"PRECEDES", "HAS_TOPIC", "PREREQUISITE_OF"} :
           \E e \in EdgesOf(start, rel) : e.from[3] = reply.course
    /\ \A rel \in {"PRECEDES", "HAS_TOPIC", "PREREQUISITE_OF"} : EdgesOf(Graph, rel) # {}

\* The nodes and edges of a graph that do not carry the course name exactly.
OtherCourses(g, course) ==
    LET ns == {n \in BagToSet(g.nodes) : n.course # course}
        es == {e \in BagToSet(g.edges) : e.from[3] # course /\ e.to[3] # course}
    IN  [nodes |-> [n \in ns |-> g.nodes[n]], edges |-> [e \in es |-> g.edges[e]]]

\* C13: a build and a delete called for a course name leave every node and every
\* edge written under a different course name (names compared exactly, as the
\* build keys them) as it was, and get_topic_prerequisites for a course name
\* returns only subtopics written under exactly that name.
C13_OtherCoursesUntouched ==
    /\ reply.op \in {"build", "delete"} =>
           OtherCourses(Graph, reply.course) = OtherCourses(start, reply.course)
    /\ reply.op = "prerequisites" =>
           \A k \in 1..Len(reply.value) :
               \E n \in NodesOf(Graph, "Subtopic") :
                   /\ n.id = reply.value[k].id
                   /\ n.name = reply.value[k].name
                   /\ n.course = reply.course

\* a is b with some of its elements left out, the others in the order of b.
RECURSIVE IsSublist(_, _)
IsSublist(a, b) ==
    IF a = <<>> THEN TRUE
    ELSE IF b = <<>> THEN FALSE
    ELSE IF Head(a) = Head(b) THEN IsSublist(Tail(a), Tail(b))
    ELSE IsSublist(a, Tail(b))

\* C14: what detect_missing_prerequisites returns is a sub-list of what
\* get_topic_prerequisites returns for the topic, it holds every prerequisite
\* whose id is not among the normalized completed ids, and it is the whole list
\* when the completed list is empty.
C14_MissingIsSublist ==
    reply.op = "missing" =>
        LET all == get_topic_prerequisites(Graph, reply.course, reply.topic)
        IN  /\ IsSublist(reply.value, all)
            /\ \A k \in 1..Len(all) :
                   all[k].id \notin CompletedSet(reply.completed) =>
                       \E j \in 1..Len(reply.value) : reply.value[j] = all[k]
            /\ reply.completed = <<>> => reply.value = all

\* A call with a completed subtopic returned some but not all of the
\* prerequisites of the topic.
C14_Witness ==
    /\ reply.op = "missing"
    /\ reply.completed # <<>>
    /\ reply.value # <<>>
    /\ Len(reply.value) < Len(get_topic_prerequisites(Graph, reply.course, reply.topic))

\* C15: get_learning_path(course, t) returns a non-empty list that ends with the
\* requested topic whenever a Topic node with id t is in the course (course names
\* compared as the query compares them), with or without a module, and the empty
\* list only when there is none.
C15_PathForEveryTopic ==
    reply.op = "learning_path" =>
        LET topic_id == normalize_id(reply.topic)
            found == \E t \in NodesOf(Graph, "Topic") :
                         t.id = topic_id /\ InCourse(t, reply.course)
            path == reply.value
        IN  /\ found =>
                   /\ path # <<>>
                   /\ path[Len(path)].type = "topic"
                   /\ path[Len(path)].id = topic_id
            /\ path = <<>> => ~found

\* C16: in every list get_learning_path returns the module entries come first,
\* in non-decreasing order, and the last of them is the module of the target
\* topic.
C16_ModulesAscending ==
    (reply.op = "learning_path" /\ reply.value # <<>>) =>
        LET path == reply.value
            topic_id == normalize_id(reply.topic)
        IN  \E k \in 1..Len(path) :
                /\ \A i \in 1..Len(path) : (path[i].type = "module") <=> (i <= k)
                /\ \A i, j \in 1..k : i < j => path[i].order <= path[j].order
                /\ \E e \in EdgesOf(Graph, "HAS_TOPIC") :
                       /\ e.from[2] = path[k].id
                       /\ e.to[2] = topic_id
                       /\ Lower(e.to[3]) = Lower(reply.course)

\* C17: get_curriculum_visualization exports the whole graph of the course: every
\* Subtopic node of the course is in the node list as a subtopic, every PRECEDES,
\* HAS_TOPIC and PREREQUISITE_OF edge of the course is in the edge list under
\* its kind, and every exported edge is an edge of the graph.
C17_ExportsWholeGraph ==
    reply.op = "visualization" =>
        LET v == reply.value
            inCourse(key) == Lower(key[3]) = Lower(reply.course)
            courseEdges == {e \in BagToSet(edges) : inCourse(e.from) /\ inCourse(e.to)}
        IN  /\ \A n \in NodesOf(Graph, "Subtopic") :
                   InCourse(n, reply.course) =>
                       \E k \in 1..Len(v.nodes) :
                           v.nodes[k].id = n.id /\ v.nodes[k].type = "subtopic"
            /\ \A e \in courseEdges :
                   \E k \in 1..Len(v.edges) :
                       v.edges[k] = [from |-> e.from[2], to |-> e.to[2], type |-> e.rel]
            /\ \A k \in 1..Len(v.edges) :
                   \E e \in courseEdges :
                       v.edges[k] = [from |-> e.from[2], to |-> e.to[2], type |-> e.rel]

\* C18: no id occurs twice in the node list get_curriculum_visualization returns.
C18_ExportedIdsUnique ==
    reply.op = "visualization" =>
        \A i, j \in 1..Len(reply.value.nodes) :
            reply.value.nodes[i].id = reply.value.nodes[j].id => i = j

\* The first key of a synonym list that some header normalizes to (<<>> if none).
RECURSIVE FirstPresentKey(_, _)
FirstPresentKey(fieldnames, keys) ==
    IF keys = <<>> THEN <<>>
    ELSE IF \E i \in 1..Len(fieldnames) : NormalizeHeader(fieldnames[i]) = Head(keys)
         THEN Head(keys)
         ELSE FirstPresentKey(fieldnames, Tail(keys))

\* C19: for each field, column detection returns nothing when no synonym of the
\* field is present; otherwise it returns a header that normalizes to the first
\* synonym of the list that is present, and among the headers that normalize to
\* that synonym the one declared earliest in the header row.
C19_EarliestHeaderWins ==
    reply.op = "columns" =>
        LET fieldnames == reply.fieldnames
            Holds(col, keys) ==
                LET key == FirstPresentKey(fieldnames, keys)
                    at == {i \in 1..Len(fieldnames) : NormalizeHeader(fieldnames[i]) = key}
                IN  IF key = <<>> THEN col = NoneVal
                    ELSE /\ NormalizeHeader(col) = key
                         /\ col = fieldnames[CHOOSE i \in at : \A j \in at : i <= j]
        IN  /\ Holds(reply.value.module_col, module_keys)
            /\ Holds(reply.value.lecture_num_col, lecture_num_keys)
            /\ Holds(reply.value.topic_col, topic_keys)
            /\ Holds(reply.value.subtopic_col, subtopic_keys)

\* C20: rows with an empty topic cell are skipped and leave nothing in the output
\* of parse_unified_csv: every module, topic and subtopic of the result comes
\* from a row that was not skipped (and so does every Module node the ingestion
\* writes), and every row that is not skipped, after a skipped one too, has its
\* topic in the result.
C20_SkippedRowsExcluded ==
    LET table == job.table
        out == parse_unified_csv(table)
        Kept == {i \in 1..Len(table.rows) : Strip(table.rows[i].topic) # <<>>}
    IN  job.phase = "ok" =>
            /\ \A k \in 1..Len(out.modules) :
                   \E i \in Kept : LabelAt(table, i) = out.modules[k].name
            /\ \A k \in 1..Len(out.topics) :
                   \E i \in Kept : Strip(table.rows[i].topic) = out.topics[k].name
            /\ \A k \in 1..Len(out.subtopics) :
                   \E i \in Kept : out.subtopics[k].name \in SubtopicNamesAt(table, i)
            /\ Len(out.topics) = Cardinality(Kept)
            /\ \A i \in Kept :
                   \E k \in 1..Len(out.topics) :
                       out.topics[k].name = Strip(table.rows[i].topic)
            /\ \A n \in NodesOf(Graph, "Module") :
                   \E i \in Kept : LabelAt(table, i) = n.name


\* The positions of the separators ';' and ',' in s, with 0 and Len(s) + 1.
SeparatorPositions(s) ==
    {0, Len(s) + 1} \cup {i \in 1..Len(s) : s[i] \in {";", ","}}

\* The k-th smallest element of a set of numbers.
KthSmallest(S, k) == CHOOSE x \in S : Cardinality({y \in S : y < x}) = k - 1

\* The k-th token of s: what stands between the k-th and the next separator.
TokenAt(s, k) ==
    SubSeq(s, KthSmallest(SeparatorPositions(s), k) + 1,
              KthSmallest(SeparatorPositions(s), k + 1) - 1)

\* The token holds an R<digits> identifier, in either letter case.
HasResourceId(token) ==
    \E i \in 1..(Len(token) - 1) : token[i] \in {"R", "r"} /\ IsDigit(token[i + 1])

\* The numbers of the tokens of s that hold an identifier.
IdTokens(s) ==
    {k \in 1..(Cardinality(SeparatorPositions(s)) - 1) : HasResourceId(TokenAt(s, k))}

\* id is 'R' followed by digits, and stands in the token in either letter case.
IsResourceIdOf(id, token) ==
    /\ Len(id) >= 2
    /\ id[1] = "R"
    /\ \A i \in 2..Len(id) : IsDigit(id[i])
    /\ \E i \in 1..Len(token) :
           /\ i + Len(id) - 1 <= Len(token)
           /\ token[i] \in {"R", "r"}
           /\ SubSeq(token, i + 1, i + Len(id) - 1) = SubSeq(id, 2, Len(id))

\* C21: _parse_resources splits its input on ';' and ',' and yields, in token
\* order, exactly one reference for every token that holds an R<digits>
\* identifier and nothing for every other token; every resource_id is 'R'
\* followed by digits.  "R1 Ch1; R2 Lec5; garbage" gives exactly R1 with chapter
\* Ch1 and R2 with lecture Lec5.
C21_OneReferencePerIdToken ==
    reply.op = "_parse_resources" =>
        /\ Len(reply.value) = Cardinality(IdTokens(reply.text))
        /\ \A k \in 1..Len(reply.value) :
               IsResourceIdOf(reply.value[k].resource_id,
                              TokenAt(reply.text, KthSmallest(IdTokens(reply.text), k)))
        /\ reply.text = SampleResources =>
               /\ Len(reply.value) = 2
               /\ reply.value[1].resource_id = <<"R", "1">>
               /\ reply.value[1].chapter = <<"C", "h", "1">>
               /\ reply.value[1].lecture = NoneVal
               /\ reply.value[2].resource_id = <<"R", "2">>
               /\ reply.value[2].chapter = NoneVal
               /\ reply.value[2].lecture = <<"L", "e", "c", "5">>

\* The example cell has been parsed into two references, the token without an
\* identifier dropped.
C21_Witness ==
    /\ reply.op = "_parse_resources"
    /\ reply.text = SampleResources
    /\ Len(reply.value) = 2
    /\ Cardinality(SeparatorPositions(reply.text)) - 1 = 3

\* C23: normalize_id is idempotent, normalize_id(normalize_id(x)) = normalize_id(x),
\* and returns the empty string for an empty or whitespace-only input.
C23_NormalizeIdIdempotent ==
    reply.op = "normalize_id" =>
        /\ normalize_id(reply.value) = reply.value
        /\ (\A i \in 1..Len(reply.text) : reply.text[i] \in {" ", "\t"}) =>
               reply.value = <<>>

\* normalize_id has changed its input (case, a space, a hyphen, the stripped
\* ends) and the result is what a second application returns.
C23_Witness ==
    /\ reply.op = "normalize_id"
    /\ reply.text = <<" ", "A", "-", "a">>
    /\ reply.value = <<"a", "_", "a">>
    /\ normalize_id(reply.value) = reply.value

\* The entries of the linker, by their numbers in row order, that reference the
\* resource id.
ReferencingEntries(self, resource_id) ==
    {k \in 1..Len(self.syllabus_entries) :
        \E r \in 1..Len(self.syllabus_entries[k].resources) :
            self.syllabus_entries[k].resources[r].resource_id = resource_id}

\* The document name begins with r or R and digits that spell the resource id.
LeadsWith(document_name, resource_id) ==
    /\ Len(document_name) >= Len(resource_id)
    /\ Len(resource_id) >= 2
    /\ document_name[1] \in {"R", "r"}
    /\ resource_id[1] = "R"
    /\ \A i \in 2..Len(resource_id) :
           IsDigit(resource_id[i]) /\ document_name[i] = resource_id[i]
    /\ Len(document_name) > Len(resource_id) =>
           ~IsDigit(document_name[Len(resource_id) + 1])

\* C22: get_context_for_document(filename) returns the context of the first
\* entry, in row order, that references the resource id leading the filename
\* (letter case ignored), with that entry's own chapter/lecture sub-reference
\* for the resource; it returns nothing exactly when
\* get_all_contexts_for_document(filename) is empty, and otherwise equals the
\* first element of that list.
C22_FirstReferencingEntry ==
    reply.op = "get_context_for_document" =>
        LET all == get_all_contexts_for_document(linker, reply.document_name)
            ids == {id \in DOMAIN linker.resource_to_entries :
                       LeadsWith(reply.document_name, id)}
        IN  /\ reply.value = NoContext <=> all = <<>>
            /\ all # <<>> => reply.value = all[1]
            /\ reply.value = NoContext <=>
                   \A id \in ids : ReferencingEntries(linker, id) = {}
            /\ \A id \in ids :
                   LET S == ReferencingEntries(linker, id)
                       k == CHOOSE x \in S : \A y \in S : x <= y
                       entry == linker.syllabus_entries[k]
                   IN  S # {} =>
                           /\ reply.value.topic = entry.topic
                           /\ reply.value.module = entry.module
                           /\ reply.value.module_order = entry.module_order
                           /\ reply.value.lecture_number = entry.lecture_number
                           /\ \E r \in 1..Len(entry.resources) :
                                  /\ entry.resources[r].resource_id = id
                                  /\ entry.resources[r].chapter = reply.value.chapter
                                  /\ entry.resources[r].lecture = reply.value.lecture_ref

\* "R2_notes.pdf" is looked up in an index in which two rows reference R2: the
\* context is that of the first row, with lecture_ref Lec5 from "R2 Lec5".
C22_Witness ==
    /\ reply.op = "get_context_for_document"
    /\ Len(get_all_contexts_for_document(linker, reply.document_name)) = 2
    /\ reply.value # NoContext
    /\ reply.value.lecture_ref = <<"L", "e", "c", "5">>
    /\ reply.value.topic = <<"t">>
    /\ get_all_contexts_for_document(linker, reply.document_name)[2].topic = <<"w">>

\* What a lookup returns on a new instance that has loaded only this file.
FreshLookup(op, file, document_name) ==
    LET fresh == load_syllabus(NewLinker, file, CourseC).self
    IN  IF op = "get_context_for_document"
        THEN get_context_for_document(fresh, document_name)
        ELSE get_all_contexts_for_document(fresh, document_name)

\* The topics of the contexts a lookup returned.
ReturnedTopics(op, value) ==
    IF op = "get_context_for_document"
    THEN IF value = NoContext THEN {} ELSE {value.topic}
    ELSE {value[k].topic : k \in 1..Len(value)}

\* C29: after any sequence of load_syllabus calls on one linker, returned or
\* raised, the two lookups resolve only against the entries of the most recent
\* load_syllabus call: what they return is what a new instance that loaded only
\* the last file returns, every returned topic is a topic of the last file, and
\* before the first load that returned, and after a load that raised, both
\* return nothing.
C29_OnlyLatestSyllabus ==
    reply.op \in {"get_context_for_document", "get_all_contexts_for_document"} =>
        LET nothing == IF reply.op = "get_context_for_document" THEN NoContext ELSE <<>>
        IN  /\ job.phase = "loaded" =>
                   /\ reply.value = FreshLookup(reply.op, job.table, reply.document_name)
                   /\ \A topic \in ReturnedTopics(reply.op, reply.value) :
                          \E i \in 1..Len(job.table.rows) :
                              Strip(job.table.rows[i].topic) = topic
            /\ job.phase # "loaded" => reply.value = nothing

\* Two loads were made on the instance; the file of the second has the single
\* row of topic t, and the lookup returns the entry of that row alone.
C29_Witness ==
    /\ reply.op = "get_all_contexts_for_document"
    /\ calls = 2
    /\ job.phase = "loaded"
    /\ Len(job.table.rows) = 1
    /\ job.table.rows[1].topic = <<"t">>
    /\ Len(reply.value) = 1
    /\ reply.value[1].topic = <<"t">>

\* C26: for every header row (here: every one with a topic column, on which
\* neither function raises), parse_unified_csv and load_syllabus resolve the
\* module, lecture-number, topic and subtopic fields to the same column.
C26_SameColumns ==
    reply.op = "linker_columns" /\ ~reply.value.raised =>
        LET graph == ColumnMapping(reply.fieldnames)
        IN  /\ reply.value.module_col = graph.module_col
            /\ reply.value.lecture_num_col = graph.lecture_num_col
            /\ reply.value.topic_col = graph.topic_col
            /\ reply.value.subtopic_col = graph.subtopic_col

\* C27: in the summary of a build, modules_created, topics_created and
\* subtopics_created are the numbers of module, topic and subtopic records
\* passed, precedes_relationships is max(len(modules) - 1, 0), whatever the
\* graph held before; the summary of an identical build that follows equals
\* the summary before it.
C27_SummaryCounts ==
    [][reply'.op = "build_summary" /\ reply' # reply =>
          LET input == parse_unified_csv(job'.table)
              n == Len(input.modules)
          IN  /\ reply'.value.modules_created = n
              /\ reply'.value.topics_created = Len(input.topics)
              /\ reply'.value.subtopics_created = Len(input.subtopics)
              /\ reply'.value.precedes_relationships = (IF n > 1 THEN n - 1 ELSE 0)
              /\ (/\ reply.op = "build_summary"
                  /\ reply.course = reply'.course
                  /\ job.table = job'.table) => reply'.value = reply.value]_vars

\* A second build has returned its summary: the graph it found held nodes, and
\* the records it was passed were modules, topics and subtopics.
C27_Witness ==
    /\ reply.op = "build_summary"
    /\ calls = 2
    /\ start # EmptyGraph
    /\ job.course = reply.course
    /\ MatchNodes(start.nodes, <<"Module", <<"a">>, reply.course>>) # {}
    /\ reply.value.modules_created = 2
    /\ reply.value.topics_created = 2
    /\ reply.value.subtopics_created = 1

\* C25: course_pipeline.detect_missing_prerequisites returns the list that
\* curriculum_graph_handler.detect_missing_prerequisites returns for the same
\* graph, topic and completed ids.
C25_SameMissingList ==
    reply.op = "pipeline_missing" =>
        reply.value = detect_missing_prerequisites(Graph, reply.course, reply.topic,
                                                   reply.completed)

\* C30: no call of get_next_curriculum_item returns the topic id it was given.
C30_NeverReturnsGivenTopic ==
    reply.op = "next_item" =>
        reply.value = NoItem \/ reply.value.id # reply.topic

\* Phase 1 of ingest_course completes: the inputs are there, the handler was
\* imported, the file is read and the store takes all three passes.
Phase1Completes(file, env) ==
    /\ env.csv_exists /\ env.folder_is_dir /\ env.handler_available
    /\ file.decodable /\ file.topic_col
    /\ env.store_fails_at = 0

\* The graph build fails fatally: the store is unreachable or the syllabus file
\* cannot be decoded.
FatalBuildFailure(file, env) ==
    /\ env.csv_exists /\ env.folder_is_dir /\ env.handler_available
    /\ ~file.decodable \/ env.store_fails_at > 0

\* C24: ingest_course raises on a fatal failure of the graph build (store
\* unreachable, syllabus file undecodable), and returns a structured error
\* list without raising on a non-fatal one (a missing optional module).
C24_FatalFailureRaises ==
    reply.op = "ingest_course" =>
        /\ FatalBuildFailure(reply.file, reply.env) => reply.raised
        /\ (/\ Phase1Completes(reply.file, reply.env)
            /\ ~reply.env.linker_available) =>
               ~reply.raised /\ reply.value.errors # <<>>

\* C28: ingest_course returns success = true exactly when phase 1 completed;
\* when validation or phase 1 fails it returns success = false with errors and
\* nothing is added to the vector store nor recorded as processed; a failure or
\* a skip of phase 2 leaves success true.
C28_SuccessIffPhase1 ==
    [][reply'.op = "ingest_course" /\ reply' # reply =>
          /\ ~reply'.raised
          /\ reply'.value.success <=> Phase1Completes(reply'.file, reply'.env)
          /\ ~reply'.value.success =>
                 /\ reply'.value.errors # <<>>
                 /\ reply'.value.qdrant = EmptyDict
                 /\ qdrant' = qdrant
          /\ (/\ Phase1Completes(reply'.file, reply'.env)
              /\ \/ reply'.env.listdir_fails
                 \/ ~reply'.env.linker_available
                 \/ ~reply'.env.ai_core_available
                 \/ ~reply'.env.vector_db_available) =>
                 /\ reply'.value.success
                 /\ reply'.value.errors # <<>>
                 /\ qdrant' = qdrant]_vars

\* A second ingest_course whose phase 1 completed and whose phase 2 failed,
\* the first one having added documents to the vector store.
C28_Witness ==
    /\ reply.op = "ingest_course"
    /\ calls = 2
    /\ qdrant # <<>>
    /\ job.phase = "ok"
    /\ reply.value.success
    /\ reply.value.errors = <<"Qdrant ingestion failed">>

=============================================================================
